---- MODULE Spec2Model ----
(***************************************************************************)
(* A model of the monitor catalog's entity-resolution engine               *)
(* (src/product_matcher.py) and of the batch run that drives it            *)
(* (src/process_data.py).                                                  *)
(*                                                                         *)
(* Representation.  A Python str is a tuple of one-character strings; None *)
(* and the empty string are both the empty tuple (the code only ever tests *)
(* them for truth).  An optional float is <<>> (None) or <<n>>; sizes are  *)
(* kept in tenths of an inch (float("24.5") is <<245>>), refresh rates in  *)
(* whole Hz.  A row id is the row's index in its table.                    *)
(***************************************************************************)
EXTENDS Integers, Sequences, FiniteSets, TLC

(***************************************************************************)
(* Characters and the str methods the extractor uses.                      *)
(***************************************************************************)
UpperLetters == <<"A","B","C","D","E","F","G","H","I","J","K","L","M",
                  "N","O","P","Q","R","S","T","U","V","W","X","Y","Z">>

LowerLetters == <<"a","b","c","d","e","f","g","h","i","j","k","l","m",
                  "n","o","p","q","r","s","t","u","v","w","x","y","z">>

\* The three Cyrillic letters of the localized "inch": lower-case already.
CyrillicInch == <<"cyr-i", "cyr-n", "cyr-ch">>

UpperSet == {UpperLetters[i] : i \in 1..26}

LowerSet == {LowerLetters[i] : i \in 1..26}

DigitSet == {"0","1","2","3","4","5","6","7","8","9"}

\* [A-Z0-9]
UpperAlnum == UpperSet \cup DigitSet

\* \w on str patterns: letters of any script, digits and the underscore.
WordSet == UpperSet \cup LowerSet \cup DigitSet \cup {"_"}
             \cup {CyrillicInch[i] : i \in 1..3}

\* \s, as far as titles hold it.
Whitespace == {" ", "\t", "\n"}

\* str.lower() and str.upper() on one character.
LowerChar(c) ==
    IF c \in UpperSet
    THEN LowerLetters[CHOOSE i \in 1..26 : UpperLetters[i] = c]
    ELSE c

UpperChar(c) ==
    IF c \in LowerSet
    THEN UpperLetters[CHOOSE i \in 1..26 : LowerLetters[i] = c]
    ELSE c

lower(s) == [i \in 1..Len(s) |-> LowerChar(s[i])]

upper(s) == [i \in 1..Len(s) |-> UpperChar(s[i])]

\* str.capitalize(): first character upper-cased, the rest lower-cased.
capitalize(s) ==
    [i \in 1..Len(s) |-> IF i = 1 THEN UpperChar(s[i]) ELSE LowerChar(s[i])]

\* str.strip(): leading and trailing whitespace removed.
strip(s) ==
    LET keep == {i \in 1..Len(s) : s[i] \notin Whitespace}
    IN  IF keep = {} THEN <<>>
        ELSE LET lo == CHOOSE i \in keep : \A j \in keep : i <= j
                 hi == CHOOSE i \in keep : \A j \in keep : j <= i
             IN  SubSeq(s, lo, hi)

\* sub in s
Contains(s, sub) ==
    \E i \in 1..(Len(s) - Len(sub) + 1) : SubSeq(s, i, i + Len(sub) - 1) = sub

\* The value of a string of decimal digits.
RECURSIVE DigitsValue(_)
DigitsValue(s) ==
    IF s = <<>> THEN 0
    ELSE 10 * DigitsValue(SubSeq(s, 1, Len(s) - 1))
         + (CHOOSE d \in 0..9 : <<"0","1","2","3","4","5","6","7","8","9">>[d + 1] = s[Len(s)])

(***************************************************************************)
(* Regular expressions, matched the way a backtracking engine matches      *)
(* them: Match returns every way the expression can match from a state, in *)
(* the order the engine would try them, so the head of the list is the     *)
(* match re.search reports.  A state is the position of the next character *)
(* and the span of the capture group (<<>> while it has not taken part).   *)
(***************************************************************************)
\* One character of the set cs.
Cls(cs) == [t |-> "cls", cs |-> cs]

\* One character not in the set cs.
NotCls(cs) == [t |-> "ncls", cs |-> cs]

\* r1 r2 ... rn
Cat(rs) == [t |-> "cat", rs |-> rs]

\* r1 | r2 | ... | rn
Alt(rs) == [t |-> "alt", rs |-> rs]

\* r{lo,hi}, greedy; hi = Unbounded for r* and r+.
Unbounded == 0 - 1

Rep(r, lo, hi) == [t |-> "rep", r |-> r, lo |-> lo, hi |-> hi]

Opt(r) == Rep(r, 0, 1)

Plus(r) == Rep(r, 1, Unbounded)

Star(r) == Rep(r, 0, Unbounded)

\* \b
WordB == [t |-> "wb"]

\* ( r ): the capture group.  Where a pattern has two groups they are the
\* two arms of an alternation, and the code reads whichever took part.
Grp(r) == [t |-> "grp", r |-> r]

\* The characters of a literal, one after the other.
Lit(s) == Cat([i \in 1..Len(s) |-> Cls({s[i]})])

\* re.escape(s) of a string of letters is the literal itself.
escape(s) == Lit(s)

\* Whether character c is in class cs; under re.IGNORECASE also when its
\* other case is.
InCls(c, cs, ic) ==
    \/ c \in cs
    \/ ic /\ (LowerChar(c) \in cs \/ UpperChar(c) \in cs)

\* \b at position p of s: exactly one of the characters around it is a
\* word character.
IsWordBoundary(s, p) ==
    LET before == p > 1 /\ s[p - 1] \in WordSet
        after  == p <= Len(s) /\ s[p] \in WordSet
    IN  before # after

RECURSIVE Match(_, _, _, _), MatchCat(_, _, _, _, _), MatchAlt(_, _, _, _, _),
          MatchRep(_, _, _, _, _, _), MatchEach(_, _, _, _, _, _, _)

Match(r, s, st, ic) ==
    CASE r.t = "cls" ->
           IF st.pos <= Len(s) /\ InCls(s[st.pos], r.cs, ic)
           THEN <<[st EXCEPT !.pos = @ + 1]>> ELSE <<>>
      [] r.t = "ncls" ->
           IF st.pos <= Len(s) /\ ~InCls(s[st.pos], r.cs, ic)
           THEN <<[st EXCEPT !.pos = @ + 1]>> ELSE <<>>
      [] r.t = "wb" -> IF IsWordBoundary(s, st.pos) THEN <<st>> ELSE <<>>
      [] r.t = "cat" -> MatchCat(r.rs, 1, s, st, ic)
      [] r.t = "alt" -> MatchAlt(r.rs, 1, s, st, ic)
      [] r.t = "rep" -> MatchRep(r.r, r.lo, r.hi, s, st, ic)
      [] r.t = "grp" ->
           LET inner == Match(r.r, s, st, ic)
           IN  [k \in 1..Len(inner) |->
                  [inner[k] EXCEPT !.cap = <<st.pos, inner[k].pos>>]]

\* rs[k..] from st.
MatchCat(rs, k, s, st, ic) ==
    IF k > Len(rs) THEN <<st>>
    ELSE MatchEach(Match(rs[k], s, st, ic), 1, "cat", <<rs, k + 1>>, s, st, ic)

\* The arms rs[k..], in order.
MatchAlt(rs, k, s, st, ic) ==
    IF k > Len(rs) THEN <<>>
    ELSE Match(rs[k], s, st, ic) \o MatchAlt(rs, k + 1, s, st, ic)

\* Greedy repetition: one more round of r first, stopping here last.  A
\* round that consumes nothing is not repeated.
MatchRep(r, lo, hi, s, st, ic) ==
    LET more == IF hi = 0 THEN <<>>
                ELSE MatchEach(Match(r, s, st, ic), 1, "rep",
                               <<r, IF lo > 0 THEN lo - 1 ELSE 0,
                                 IF hi = Unbounded THEN hi ELSE hi - 1>>,
                               s, st, ic)
    IN  more \o (IF lo = 0 THEN <<st>> ELSE <<>>)

\* The continuation of every state in sts[k..], in order.
MatchEach(sts, k, how, arg, s, from, ic) ==
    IF k > Len(sts) THEN <<>>
    ELSE (CASE how = "cat" -> MatchCat(arg[1], arg[2], s, sts[k], ic)
            [] how = "rep" ->
                 IF sts[k].pos = from.pos THEN <<>>
                 ELSE MatchRep(arg[1], arg[2], arg[3], s, sts[k], ic))
         \o MatchEach(sts, k + 1, how, arg, s, from, ic)

\* re.search(r, s): the first match at the leftmost position that has one;
\* <<>> when there is none, else <<state>>.
RECURSIVE SearchFrom(_, _, _, _)
SearchFrom(r, s, p, ic) ==
    IF p > Len(s) + 1 THEN <<>>
    ELSE LET ms == Match(r, s, [pos |-> p, cap |-> <<>>], ic)
         IN  IF ms # <<>> THEN <<ms[1]>> ELSE SearchFrom(r, s, p + 1, ic)

search(r, s, ic) == SearchFrom(r, s, 1, ic)

\* match.group(1) of a successful search.
\* match.group(1) of a search: <<>> when the search found nothing, else
\* <<the text of the group>>.
Group1(s, m) == IF m = <<>> THEN <<>> ELSE <<SubSeq(s, m[1].cap[1], m[1].cap[2] - 1)>>

search_group(r, s, ic) == Group1(s, search(r, s, ic))

(***************************************************************************)
(* ProductMatcher.__init__: the lookup tables.                             *)
(***************************************************************************)
\* self.known_brands is a set of str: the order a loop visits it in is fixed
\* within one process and differs between processes (str hashes are
\* salted).  It is written here in the order of the source; SetOrder gives
\* the orders a process can visit it in.
known_brands ==
    << <<"l","g">>, <<"s","a","m","s","u","n","g">>, <<"d","e","l","l">>, <<"a","o","c">>,
       <<"b","e","n","q">>,
       <<"a","s","u","s">>, <<"m","s","i">>, <<"x","i","a","o","m","i">>,
       <<"p","h","i","l","i","p","s">>, <<"a","c","e","r">>,
          <<"v","i","e","w","s","o","n","i","c">>,
       <<"h","p">>, <<"l","e","n","o","v","o">>, <<"g","i","g","a","b","y","t","e">>,
          <<"f","u","e","g","o">> >>

\* self.panel_types, a set of str like known_brands.
panel_types ==
    << <<"i","p","s">>, <<"v","a">>, <<"t","n">>, <<"o","l","e","d">>,
       <<"q","d","-","o","l","e","d">>, <<"n","a","n","o"," ","i","p","s">> >>

\* self.resolution_patterns, a dict: visited in the order it is written.
resolution_patterns ==
    << << <<"f","h","d">>, <<"1","9","2","0","x","1","0","8","0">> >>,
       << <<"f","u","l","l"," ","h","d">>, <<"1","9","2","0","x","1","0","8","0">> >>,
       << <<"1","0","8","0","p">>, <<"1","9","2","0","x","1","0","8","0">> >>,
       << <<"w","q","h","d">>, <<"2","5","6","0","x","1","4","4","0">> >>,
       << <<"q","h","d">>, <<"2","5","6","0","x","1","4","4","0">> >>,
       << <<"1","4","4","0","p">>, <<"2","5","6","0","x","1","4","4","0">> >>,
       << <<"2","k">>, <<"2","5","6","0","x","1","4","4","0">> >>,
       << <<"4","k">>, <<"3","8","4","0","x","2","1","6","0">> >>,
       << <<"u","h","d">>, <<"3","8","4","0","x","2","1","6","0">> >>,
       << <<"u","w","q","h","d">>, <<"3","4","4","0","x","1","4","4","0">> >>,
       << <<"u","l","t","r","a","w","i","d","e"," ","q","h","d">>,
          <<"3","4","4","0","x","1","4","4","0">> >>,
       << <<"5","k">>, <<"5","1","2","0","x","2","8","8","0">> >> >>

\* The process's hash seed, as far as the model tells seeds apart: "fwd"
\* visits a set in the order written above, "rev" in the opposite order, so
\* that any two members are visited in both relative orders.
HashSeeds == {"fwd", "rev"}

Reverse(q) == [i \in 1..Len(q) |-> q[Len(q) + 1 - i]]

SetOrder(q, seed) == IF seed = "fwd" THEN q ELSE Reverse(q)

(***************************************************************************)
(* The patterns of _parse_monitor_attributes.                              *)
(***************************************************************************)
Digit == Cls(DigitSet)

\* \d{1,2}(?:\.\d)?
SizeNumber == Cat(<<Rep(Digit, 1, 2), Opt(Cat(<<Cls({"."}), Digit>>))>>)

\* (\d{1,2}(?:\.\d)?)["\']|\b(\d{1,2}(?:\.\d)?)\s*(?:inch|<cyrillic inch>)
size_pattern ==
    Alt(<< Cat(<<Grp(SizeNumber), Cls({"\"", "'"})>>),
           Cat(<<WordB, Grp(SizeNumber), Star(Cls(Whitespace)),
                 Alt(<<Lit(<<"i","n","c","h">>), Lit(CyrillicInch)>>)>>) >>)

\* \b<brand>\b
brand_pattern(brand) == Cat(<<WordB, escape(lower(brand)), WordB>>)

\* \b([A-Z]+\d{3,4}[A-Z]{0,2}(?:-[A-Z0-9]+)?)\b
dell_pattern ==
    Cat(<<WordB,
          Grp(Cat(<<Plus(Cls(UpperSet)), Rep(Digit, 3, 4), Rep(Cls(UpperSet), 0, 2),
                    Opt(Cat(<<Cls({"-"}), Plus(Cls(UpperAlnum))>>))>>)),
          WordB>>)

\* \b(L[SCFT]\d{2}[A-Z]\d{3}[A-Z]+)\b
samsung_pattern ==
    Cat(<<WordB,
          Grp(Cat(<<Cls({"L"}), Cls({"S", "C", "F", "T"}), Rep(Digit, 2, 2),
                    Cls(UpperSet), Rep(Digit, 3, 3), Plus(Cls(UpperSet))>>)),
          WordB>>)

\* \b(\d{2}[A-Z]{2,}\d{2,}[A-Z]{0,2}-[A-Z0-9]+)\b
lg_pattern ==
    Cat(<<WordB,
          Grp(Cat(<<Rep(Digit, 2, 2), Rep(Cls(UpperSet), 2, Unbounded),
                    Rep(Digit, 2, Unbounded), Rep(Cls(UpperSet), 0, 2),
                    Cls({"-"}), Plus(Cls(UpperAlnum))>>)),
          WordB>>)

\* \b<brand>[^\w]*([A-Z0-9]+-?[A-Z0-9]+(?:-[A-Z0-9]+)?)\b
generic_pattern(brand) ==
    Cat(<<WordB, escape(lower(brand)), Star(NotCls(WordSet)),
          Grp(Cat(<<Plus(Cls(UpperAlnum)), Opt(Cls({"-"})), Plus(Cls(UpperAlnum)),
                    Opt(Cat(<<Cls({"-"}), Plus(Cls(UpperAlnum))>>))>>)),
          WordB>>)

\* model_patterns, in the order of the list:
\*   \b([A-Z0-9]{2,}[-_][A-Z0-9]{2,}[-_]?[A-Z0-9]*)\b
\*   \b([A-Z]\d{4}[A-Z]*)\b
\*   \b(\d{2}[A-Z]\d{2,}[A-Z0-9]+)\b
model_patterns ==
    << Cat(<<WordB,
             Grp(Cat(<<Rep(Cls(UpperAlnum), 2, Unbounded), Cls({"-", "_"}),
                       Rep(Cls(UpperAlnum), 2, Unbounded), Opt(Cls({"-", "_"})),
                       Star(Cls(UpperAlnum))>>)),
             WordB>>),
       Cat(<<WordB, Grp(Cat(<<Cls(UpperSet), Rep(Digit, 4, 4), Star(Cls(UpperSet))>>)),
             WordB>>),
       Cat(<<WordB,
             Grp(Cat(<<Rep(Digit, 2, 2), Cls(UpperSet), Rep(Digit, 2, Unbounded),
                       Plus(Cls(UpperAlnum))>>)),
             WordB>>) >>

\* (\d{3,4}x\d{3,4})
specific_res_pattern == Grp(Cat(<<Rep(Digit, 3, 4), Cls({"x"}), Rep(Digit, 3, 4)>>))

\* (\d{2,3})(?:\s*)hz
refresh_pattern == Cat(<<Grp(Rep(Digit, 2, 3)), Star(Cls(Whitespace)), Lit(<<"h","z">>)>>)

(***************************************************************************)
(* _parse_monitor_attributes, stage by stage.                              *)
(***************************************************************************)
\* A dict: a function on its keys.
EmptyDict == [k \in {} |-> TRUE]

Put(d, k, v) == [x \in (DOMAIN d) \cup {k} |-> IF x = k THEN v ELSE d[x]]

\* float(size_value) in tenths: "24" is 240, "24.5" is 245.
FloatTenths(s) ==
    IF Len(s) >= 2 /\ s[Len(s) - 1] = "."
    THEN 10 * DigitsValue(SubSeq(s, 1, Len(s) - 2)) + DigitsValue(<<s[Len(s)]>>)
    ELSE 10 * DigitsValue(s)

\* Size: the first match of size_pattern, as a float.
SizeValue(size_value) ==
    IF size_value # <<>> /\ size_value[1] # <<>>
    THEN <<FloatTenths(size_value[1])>> ELSE <<>>

ExtractSize(name_lower) == SizeValue(search_group(size_pattern, name_lower, FALSE))

\* The brand stored as the table spells it, in lower case.
BrandCasingLower(brand) == lower(brand)

\* The casing of a brand in the output.
BrandCasing(brand) ==
    IF lower(brand) \in {<<"l","g">>, <<"h","p">>, <<"m","s","i">>, <<"a","o","c">>}
    THEN upper(brand) ELSE capitalize(brand)

\* Brand: the first brand of the visiting order that is in the title as a
\* whole word.
RECURSIVE BrandScan(_, _, _)
BrandScan(brands, k, name_lower) ==
    IF k > Len(brands) THEN <<>>
    ELSE IF /\ Contains(name_lower, lower(brands[k]))
            /\ search(brand_pattern(brands[k]), name_lower, FALSE) # <<>>
         THEN BrandCasing(brands[k])
         ELSE BrandScan(brands, k + 1, name_lower)

ExtractBrand(name_lower, seed) == BrandScan(SetOrder(known_brands, seed), 1, name_lower)

\* Model, first stage: the pattern of the brand, for Dell, Samsung and LG.
BrandSpecificPattern(brand) ==
    IF brand = <<>> THEN <<>>
    ELSE IF lower(brand) = <<"d","e","l","l">> THEN <<dell_pattern>>
    ELSE IF lower(brand) = <<"s","a","m","s","u","n","g">> THEN <<samsung_pattern>>
    ELSE IF lower(brand) = <<"l","g">> THEN <<lg_pattern>>
    ELSE <<>>

\* A model found, or <<>>.
ModelFound(group) == IF group = <<>> THEN <<>> ELSE group[1]

SearchIfAny(pattern, product_name) ==
    IF pattern = <<>> THEN <<>> ELSE search_group(pattern[1], product_name, FALSE)

BrandSpecificModel(product_name, brand) ==
    ModelFound(SearchIfAny(BrandSpecificPattern(brand), product_name))

\* Model, second stage: the token after the brand in the lower-cased title.
GenericModel(name_lower, brand, model) ==
    IF model = <<>> /\ brand # <<>>
    THEN upper(ModelFound(search_group(generic_pattern(brand), name_lower, FALSE)))
    ELSE model

\* Model, third stage: the first of model_patterns that matches anywhere.
FirstOr(group, rest) == IF group # <<>> THEN upper(group[1]) ELSE rest

RECURSIVE ModelPatternScan(_, _)
ModelPatternScan(k, product_name) ==
    IF k > Len(model_patterns) THEN <<>>
    ELSE FirstOr(search_group(model_patterns[k], product_name, TRUE),
                 ModelPatternScan(k + 1, product_name))

\* The third stage taking the model whenever one of its patterns matches.
FallbackModelOverwrites(product_name, model) ==
    IF ModelPatternScan(1, product_name) # <<>>
    THEN ModelPatternScan(1, product_name) ELSE model

\* The third stage left out: the model as the stages of the brand left it.
FallbackModelSkipped(product_name, model) == model

\* if not result["model"]: the scan, whether or not a brand was found.
FallbackModel(product_name, model) ==
    IF model = <<>> THEN ModelPatternScan(1, product_name) ELSE model

ExtractModel(product_name, name_lower, brand) ==
    FallbackModel(product_name,
                  GenericModel(name_lower, brand, BrandSpecificModel(product_name, brand)))

\* Resolution: the first table entry whose term is in the title.
RECURSIVE ResolutionScan(_, _)
ResolutionScan(k, name_lower) ==
    IF k > Len(resolution_patterns) THEN <<>>
    ELSE IF Contains(name_lower, resolution_patterns[k][1])
         THEN resolution_patterns[k][2]
         ELSE ResolutionScan(k + 1, name_lower)

\* ... overridden by a literal like 1920x1080.
ExplicitOr(group, table_value) == IF group # <<>> THEN group[1] ELSE table_value

ExtractResolution(name_lower) ==
    ExplicitOr(search_group(specific_res_pattern, name_lower, FALSE),
               ResolutionScan(1, name_lower))

\* Refresh rate, in Hz.
RateValue(group) == IF group # <<>> THEN <<DigitsValue(group[1])>> ELSE <<>>

ExtractRefreshRate(name_lower) == RateValue(search_group(refresh_pattern, name_lower, FALSE))

\* Panel type: the first panel of the visiting order that is in the title.
RECURSIVE PanelScan(_, _, _)
PanelScan(panels, k, name_lower) ==
    IF k > Len(panels) THEN <<>>
    ELSE IF Contains(name_lower, lower(panels[k])) THEN upper(panels[k])
         ELSE PanelScan(panels, k + 1, name_lower)

ExtractPanelType(name_lower, seed) == PanelScan(SetOrder(panel_types, seed), 1, name_lower)

\* additional_specs: each flag with the substrings that set it.
additional_specs ==
    << <<"curved", {<<"c","u","r","v","e","d">>}>>,
       <<"gaming", {<<"g","a","m","i","n","g">>, <<"g","a","m","e">>}>>,
       <<"hdr", {<<"h","d","r">>}>>,
       <<"freesync", {<<"f","r","e","e","s","y","n","c">>}>>,
       <<"gsync", {<<"g","-","s","y","n","c">>, <<"g","s","y","n","c">>}>>,
       <<"usb_c", {<<"u","s","b","-","c">>, <<"u","s","b","c">>}>>,
       <<"hdmi", {<<"h","d","m","i">>}>>,
       <<"displayport", {<<"d","p">>, <<"d","i","s","p","l","a","y","p","o","r","t">>}>>,
       <<"speakers", {<<"s","p","e","a","k","e","r">>}>>,
       <<"height_adjustable", {<<"h","e","i","g","h","t">>, <<"h","a","s">>}>> >>

\* The flags whose test is true.
FlagsFound(name_lower) ==
    {additional_specs[k][1] :
       k \in {j \in 1..Len(additional_specs) :
                \E sub \in additional_specs[j][2] : Contains(name_lower, sub)}}

\* The specs map: each attribute found, mirrored, and the flags found.
BuildSpecs(result, name_lower) ==
    [k \in {a \in {"size", "resolution", "refresh_rate", "panel_type"} : result[a] # <<>>}
           \cup FlagsFound(name_lower) |->
       IF k \in {"size", "refresh_rate"} THEN result[k][1]
       ELSE IF k \in {"resolution", "panel_type"} THEN result[k]
       ELSE TRUE]

\* The attributes, without the specs.
Attributes(product_name, name_lower, seed) ==
    [name         |-> product_name,
     brand        |-> ExtractBrand(name_lower, seed),
     size         |-> ExtractSize(name_lower),
     resolution   |-> ExtractResolution(name_lower),
     refresh_rate |-> ExtractRefreshRate(name_lower),
     panel_type   |-> ExtractPanelType(name_lower, seed)]

\* The result, with the model and the specs.
Result(found, model, name_lower) ==
    [name         |-> found.name,
     brand        |-> found.brand,
     model        |-> model,
     size         |-> found.size,
     resolution   |-> found.resolution,
     refresh_rate |-> found.refresh_rate,
     panel_type   |-> found.panel_type,
     specs        |-> BuildSpecs(found, name_lower)]

WithModel(found, product_name, name_lower) ==
    Result(found, ExtractModel(product_name, name_lower, found.brand), name_lower)

ParseLowered(product_name, name_lower, seed) ==
    WithModel(Attributes(product_name, name_lower, seed), product_name, name_lower)

ParseStripped(product_name, seed) == ParseLowered(product_name, lower(product_name), seed)

\* _parse_monitor_attributes(product_name), in a process of hash seed seed.
parse_monitor_attributes(title, seed) == ParseStripped(strip(title), seed)

(***************************************************************************)
(* The listing titles of the model.                                        *)
(***************************************************************************)
Titles ==
    << <<"D","e","l","l"," ","P","2","4","2","5","H"," ","M","o","n","i","t","o","r"," ","2","4"," ","i","n","c","h"," ","F","H","D"," ","1","0","0","H","z">>,
       <<"P","2","4","2","5","H"," ","2","4","\""," ","F","H","D"," ","D","e","l","l"," ","m","o","n","i","t","o","r">>,
       <<"D","e","l","l"," ","P","2","4","2","5","H","E"," ","2","4","\"">>,
       <<"D","e","l","l"," ","m","o","n","i","t","o","r">>,
       <<"M","o","n","i","t","o","r"," ","2","7"," ","i","n","c","h">>,
       <<"D","e","l","l"," ","H","P"," ","2","4","\"">>,
       <<"D","e","l","l"," ","P","2","4","2","5","H"," ","2","7","\"">> >>

TitleIds == 1..Len(Titles)

\* The extraction of every title under every seed, worked out once.
Parsed == [seed \in HashSeeds |-> [t \in TitleIds |-> parse_monitor_attributes(Titles[t], seed)]]

(***************************************************************************)
(* Similarity primitives.  A float in [0,1] is kept as the exact fraction  *)
(* <<numerator, denominator>> it rounds.                                   *)
(***************************************************************************)
Min(a, b) == IF a <= b THEN a ELSE b

Max(a, b) == IF a >= b THEN a ELSE b

\* The next row of the edit-distance table: row[j + 1] is the distance
\* between the prefix read so far and the first j characters of b.
RECURSIVE LevenshteinRow(_, _, _, _)
LevenshteinRow(prev, c, b, cur) ==
    IF Len(cur) = Len(b) + 1 THEN cur
    ELSE LET j == Len(cur)
         IN  LevenshteinRow(prev, c, b,
                 Append(cur, Min(Min(prev[j + 1] + 1, cur[j] + 1),
                                 prev[j] + (IF b[j] = c THEN 0 ELSE 1))))

RECURSIVE LevenshteinFrom(_, _, _, _)
LevenshteinFrom(a, b, i, prev) ==
    IF i > Len(a) THEN prev[Len(b) + 1]
    ELSE LevenshteinFrom(a, b, i + 1, LevenshteinRow(prev, a[i], b, <<prev[1] + 1>>))

\* Levenshtein.distance(a, b)
distance(a, b) == LevenshteinFrom(a, b, 1, [j \in 1..(Len(b) + 1) |-> j - 1])

\* The model not upper-cased before the characters outside [A-Z0-9] go.
ModelNormKeepCase(model) == SelectSeq(model, LAMBDA c : c \in UpperAlnum)

\* re.sub(r'[^A-Z0-9]', '', model.upper())
ModelNorm(model) == SelectSeq(upper(model), LAMBDA c : c \in UpperAlnum)

model_similarity(model1, model2) ==
    IF model1 = <<>> \/ model2 = <<>> THEN <<0, 1>>
    ELSE LET model1_norm == ModelNorm(model1)
             model2_norm == ModelNorm(model2)
             max_len     == Max(Len(model1_norm), Len(model2_norm))
         IN  IF model1_norm = <<>> \/ model2_norm = <<>> THEN <<0, 1>>
             ELSE <<max_len - distance(model1_norm, model2_norm), max_len>>

\* The matches over all the keys of the first map.
specs_similarity_over_first(specs1, specs2) ==
    IF DOMAIN specs1 = {} \/ DOMAIN specs2 = {} THEN <<0, 1>>
    ELSE IF (DOMAIN specs1) \cap (DOMAIN specs2) = {} THEN <<0, 1>>
    ELSE <<Cardinality({key \in (DOMAIN specs1) \cap (DOMAIN specs2) :
                          specs1[key] = specs2[key]}),
           Cardinality(DOMAIN specs1)>>

\* _specs_similarity
specs_similarity(specs1, specs2) ==
    IF DOMAIN specs1 = {} \/ DOMAIN specs2 = {} THEN <<0, 1>>
    ELSE LET common_keys == (DOMAIN specs1) \cap (DOMAIN specs2)
             matches     == Cardinality({key \in common_keys : specs1[key] = specs2[key]})
         IN  IF common_keys = {} THEN <<0, 1>>
             ELSE <<matches, Cardinality(common_keys)>>

\* fraction >= n / d
AtLeast(fraction, n, d) == fraction[1] * d >= n * fraction[2]

(***************************************************************************)
(* _calculate_match_score.                                                 *)
(***************************************************************************)
\* Truth of an optional float: neither None nor 0.0.
TruthyFloat(f) == f # <<>> /\ f[1] # 0

\* The weights with those of the brand and of the panel type exchanged.
WeightsBrandLightest ==
    [brand |-> 5, model |-> 35, size |-> 15, resolution |-> 10,
     refresh_rate |-> 10, panel_type |-> 25]

\* The weights with those of the brand and of the model exchanged.
WeightsBrandHeaviest ==
    [brand |-> 35, model |-> 25, size |-> 15, resolution |-> 10,
     refresh_rate |-> 10, panel_type |-> 5]

\* The weights, in hundredths.
Weights ==
    [brand |-> 25, model |-> 35, size |-> 15, resolution |-> 10,
     refresh_rate |-> 10, panel_type |-> 5]

\* The five attributes compared exactly, and whether one is set (and,
\* for a float, not 0.0).
ExactAttributes == {"brand", "size", "resolution", "refresh_rate", "panel_type"}

IsSet(side, k) ==
    IF k \in {"size", "refresh_rate"} THEN TruthyFloat(side[k]) ELSE side[k] # <<>>

\* score_components without the model: for every attribute set on both
\* sides, 1 when the two values are equal (the brands regardless of case),
\* else 0.
ExactComponents(product, match_data) ==
    [k \in {a \in ExactAttributes : IsSet(product, a) /\ IsSet(match_data, a)} |->
       IF k = "brand"
       THEN (IF lower(product.brand) = lower(match_data.brand) THEN 1 ELSE 0)
       ELSE (IF product[k] = match_data[k] THEN 1 ELSE 0)]

\* The model's component: <<>> when a side has no model, else <<fraction>>.
ModelComponent(product, match_data) ==
    IF product.model # <<>> /\ match_data.model # <<>>
    THEN <<model_similarity(product.model, match_data.model)>>
    ELSE <<>>

RECURSIVE SumOver(_, _)
SumOver(f, keys) ==
    IF keys = {} THEN 0
    ELSE LET k == CHOOSE x \in keys : TRUE
         IN  f[k] + SumOver(f, keys \ {k})

\* weighted_score / total_weight as an exact fraction; 0.0 when there is no
\* component.
WeightedScore(exact, model, hits, total) ==
    IF DOMAIN exact = {} /\ model = <<>> THEN <<0, 1>>
    ELSE IF model = <<>> THEN <<hits, total>>
    ELSE <<hits * model[1][2] + Weights.model * model[1][1],
           (total + Weights.model) * model[1][2]>>

ScoreOf(exact, model) ==
    WeightedScore(exact, model,
                  SumOver([k \in DOMAIN exact |-> exact[k] * Weights[k]], DOMAIN exact),
                  SumOver([k \in DOMAIN exact |-> Weights[k]], DOMAIN exact))

calculate_match_score(product, match_data) ==
    ScoreOf(ExactComponents(product, match_data), ModelComponent(product, match_data))

\* The combinations whose exact score is 0.8 and whose score as the code
\* works it out in doubles (the sums of lines 447-448 in the order of the
\* list, then the division) is 0.7999999999999999 or less: the exact
\* components, and the model similarity in lowest terms.  Every other
\* combination compares with 0.8 as its exact fraction does.
RoundsBelowThreshold ==
    {
      <<EmptyDict, <<4, 5>>>>,
      <<("panel_type" :> 0), <<32, 35>>>>,
      <<("resolution" :> 0 @@ "refresh_rate" :> 1 @@ "panel_type" :> 1), <<33, 35>>>>,
      <<("resolution" :> 1 @@ "refresh_rate" :> 0 @@ "panel_type" :> 1), <<33, 35>>>>,
      <<("resolution" :> 1 @@ "refresh_rate" :> 1 @@ "panel_type" :> 1), <<23, 35>>>>,
      <<("size" :> 0 @@ "resolution" :> 1 @@ "refresh_rate" :> 1 @@ "panel_type" :> 1), <<1, 1>>>>,
      <<("size" :> 1 @@ "panel_type" :> 0), <<29, 35>>>>,
      <<("size" :> 1 @@ "panel_type" :> 1), <<24, 35>>>>,
      <<("size" :> 1 @@ "resolution" :> 0 @@ "refresh_rate" :> 1), <<31, 35>>>>,
      <<("size" :> 1 @@ "resolution" :> 0 @@ "refresh_rate" :> 1 @@ "panel_type" :> 0), <<1, 1>>>>,
      <<("size" :> 1 @@ "resolution" :> 0 @@ "refresh_rate" :> 1 @@ "panel_type" :> 1), <<6, 7>>>>,
      <<("size" :> 1 @@ "resolution" :> 1 @@ "refresh_rate" :> 0), <<31, 35>>>>,
      <<("size" :> 1 @@ "resolution" :> 1 @@ "refresh_rate" :> 0 @@ "panel_type" :> 0), <<1, 1>>>>,
      <<("size" :> 1 @@ "resolution" :> 1 @@ "refresh_rate" :> 0 @@ "panel_type" :> 1), <<6, 7>>>>,
      <<("size" :> 1 @@ "resolution" :> 1 @@ "refresh_rate" :> 1), <<3, 5>>>>,
      <<("size" :> 1 @@ "resolution" :> 1 @@ "refresh_rate" :> 1 @@ "panel_type" :> 0), <<5, 7>>>>,
      <<("size" :> 1 @@ "resolution" :> 1 @@ "refresh_rate" :> 1 @@ "panel_type" :> 1), <<4, 7>>>>,
      <<("brand" :> 1 @@ "refresh_rate" :> 0), <<31, 35>>>>,
      <<("brand" :> 1 @@ "refresh_rate" :> 0 @@ "panel_type" :> 0), <<1, 1>>>>,
      <<("brand" :> 1 @@ "refresh_rate" :> 1), <<3, 5>>>>,
      <<("brand" :> 1 @@ "refresh_rate" :> 1 @@ "panel_type" :> 0), <<5, 7>>>>,
      <<("brand" :> 1 @@ "refresh_rate" :> 1 @@ "panel_type" :> 1), <<4, 7>>>>,
      <<("brand" :> 1 @@ "resolution" :> 0), <<31, 35>>>>,
      <<("brand" :> 1 @@ "resolution" :> 0 @@ "panel_type" :> 0), <<1, 1>>>>,
      <<("brand" :> 1 @@ "resolution" :> 0 @@ "refresh_rate" :> 1 @@ "panel_type" :> 0), <<33, 35>>>>,
      <<("brand" :> 1 @@ "resolution" :> 1), <<3, 5>>>>,
      <<("brand" :> 1 @@ "resolution" :> 1 @@ "panel_type" :> 0), <<5, 7>>>>,
      <<("brand" :> 1 @@ "resolution" :> 1 @@ "panel_type" :> 1), <<4, 7>>>>,
      <<("brand" :> 1 @@ "resolution" :> 1 @@ "refresh_rate" :> 0 @@ "panel_type" :> 0), <<33, 35>>>>,
      <<("brand" :> 1 @@ "resolution" :> 1 @@ "refresh_rate" :> 1 @@ "panel_type" :> 0), <<23, 35>>>>,
      <<("brand" :> 1 @@ "resolution" :> 1 @@ "refresh_rate" :> 1 @@ "panel_type" :> 1), <<18, 35>>>>,
      <<("brand" :> 1 @@ "size" :> 0), <<1, 1>>>>,
      <<("brand" :> 1 @@ "size" :> 0 @@ "panel_type" :> 1), <<34, 35>>>>,
      <<("brand" :> 1 @@ "size" :> 0 @@ "refresh_rate" :> 1), <<33, 35>>>>,
      <<("brand" :> 1 @@ "size" :> 0 @@ "refresh_rate" :> 1 @@ "panel_type" :> 1), <<32, 35>>>>,
      <<("brand" :> 1 @@ "size" :> 0 @@ "resolution" :> 1), <<33, 35>>>>,
      <<("brand" :> 1 @@ "size" :> 0 @@ "resolution" :> 1 @@ "panel_type" :> 1), <<32, 35>>>>,
      <<("brand" :> 1 @@ "size" :> 0 @@ "resolution" :> 1 @@ "refresh_rate" :> 1), <<31, 35>>>>,
      <<("brand" :> 1 @@ "size" :> 0 @@ "resolution" :> 1 @@ "refresh_rate" :> 1 @@ "panel_type" :> 0), <<1, 1>>>>,
      <<("brand" :> 1 @@ "size" :> 1), <<4, 7>>>>,
      <<("brand" :> 1 @@ "size" :> 1 @@ "panel_type" :> 0), <<24, 35>>>>,
      <<("brand" :> 1 @@ "size" :> 1 @@ "panel_type" :> 1), <<19, 35>>>>,
      <<("brand" :> 1 @@ "size" :> 1 @@ "refresh_rate" :> 0 @@ "panel_type" :> 0), <<32, 35>>>>,
      <<("brand" :> 1 @@ "size" :> 1 @@ "refresh_rate" :> 1), <<18, 35>>>>,
      <<("brand" :> 1 @@ "size" :> 1 @@ "refresh_rate" :> 1 @@ "panel_type" :> 0), <<22, 35>>>>,
      <<("brand" :> 1 @@ "size" :> 1 @@ "resolution" :> 0 @@ "panel_type" :> 0), <<32, 35>>>>,
      <<("brand" :> 1 @@ "size" :> 1 @@ "resolution" :> 1), <<18, 35>>>>,
      <<("brand" :> 1 @@ "size" :> 1 @@ "resolution" :> 1 @@ "panel_type" :> 0), <<22, 35>>>>,
      <<("brand" :> 1 @@ "size" :> 1 @@ "resolution" :> 1 @@ "refresh_rate" :> 1 @@ "panel_type" :> 0), <<4, 7>>>>
    }

\* score >= 0.8, as the doubles decide it.
AtLeastThreshold(score, exact, model) ==
    \/ 5 * score[1] > 4 * score[2]
    \/ /\ 5 * score[1] = 4 * score[2]
       /\ ~ \E e \in RoundsBelowThreshold :
              /\ model # <<>>
              /\ e[1] = exact
              /\ e[2][1] * model[1][2] = e[2][2] * model[1][1]

\* find_product_matches, line 311: match_score >= 0.8.
ScoreAccepted(product, match_data) ==
    AtLeastThreshold(calculate_match_score(product, match_data),
                     ExactComponents(product, match_data),
                     ModelComponent(product, match_data))

(***************************************************************************)
(* _extract_price.  A float that comes of a decimal text is kept as the    *)
(* exact fraction <<numerator, power of ten>> it rounds.                   *)
(***************************************************************************)
\* re.sub(r'[^\d,.]', '', price_str)
PriceClean(price_str) == SelectSeq(price_str, LAMBDA c : c \in DigitSet \cup {",", "."})

\* s.replace(old, new), old one character, new a string.
RECURSIVE replace(_, _, _)
replace(s, old, new) ==
    IF s = <<>> THEN <<>>
    ELSE (IF Head(s) = old THEN new ELSE <<Head(s)>>) \o replace(Tail(s), old, new)

\* Line 230 left out: the dots stay when the text has both separators.
PriceSeparatorsKeepDots(price_clean) ==
    IF Contains(price_clean, <<",">>) THEN replace(price_clean, ",", <<".">>) ELSE price_clean

\* Lines 228-234: the separators brought to the form float() reads.
PriceSeparators(price_clean) ==
    IF Contains(price_clean, <<",">>) /\ Contains(price_clean, <<".">>)
    THEN replace(replace(price_clean, ".", <<>>), ",", <<".">>)
    ELSE IF Contains(price_clean, <<",">>)
         THEN replace(price_clean, ",", <<".">>)
         ELSE price_clean

\* Whether float(s) accepts s, a text of digits and dots: at least one
\* digit, at most one dot.
IsFloatLiteral(s) ==
    /\ \E i \in 1..Len(s) : s[i] \in DigitSet
    /\ Cardinality({i \in 1..Len(s) : s[i] = "."}) <= 1

RECURSIVE Pow10(_)
Pow10(k) == IF k = 0 THEN 1 ELSE 10 * Pow10(k - 1)

\* float(s) of such a text: its digits over ten to the number of digits
\* behind the dot.
FloatOf(s) ==
    LET dots == {i \in 1..Len(s) : s[i] = "."}
    IN  <<DigitsValue(SelectSeq(s, LAMBDA c : c \in DigitSet)),
          Pow10(IF dots = {} THEN 0 ELSE Len(s) - (CHOOSE i \in dots : TRUE))>>

\* Lines 237-240: float(price_clean), 0.0 on ValueError.
FloatOrZero(price_clean) ==
    IF IsFloatLiteral(price_clean) THEN FloatOf(price_clean) ELSE <<0, 1>>

extract_price(price_str) == FloatOrZero(PriceSeparators(PriceClean(price_str)))

(***************************************************************************)
(* The catalog: the tables of src/models.py.  A row's id is its index.     *)
(***************************************************************************)
\* The two sources of a run: name and website of process_anhoch_data and
\* process_neptun_data.
StoreNames == {"Anhoch", "Neptun"}

\* A product_id that is no product: NULL or the empty string, which
\* _find_potential_matches reads as "not matched to a product".
NoProduct == 0

\* The default of a brand or a model that extraction left unset.
Unknown == <<"U","n","k","n","o","w","n">>

\* Product(...) as save_product builds it.
NewProduct(t, product_data) ==
    [name         |-> t,
     brand        |-> IF product_data.brand # <<>> THEN product_data.brand ELSE Unknown,
     model        |-> IF product_data.model # <<>> THEN product_data.model ELSE Unknown,
     specs        |-> product_data.specs,
     size         |-> product_data.size,
     resolution   |-> product_data.resolution,
     refresh_rate |-> product_data.refresh_rate,
     panel_type   |-> product_data.panel_type]

\* Pricing(...): original_name is kept as the index of the title in Titles,
\* original_json as whether the payload is there (a non-empty dict); via
\* records which operation added the row.
NewPricing(product_id, store_id, t, original_json, via) ==
    [product_id    |-> product_id,
     store_id      |-> store_id,
     original_name |-> t,
     original_json |-> original_json,
     via           |-> via]

\* db.query(Product).filter(Product.brand == brand, Product.model == model)
\* .first(): the id of the first such product, NoProduct when there is none.
QueryProduct(products, brand, model) ==
    LET found == {p \in 1..Len(products) :
                    products[p].brand = brand /\ products[p].model = model}
    IN  IF found = {} THEN NoProduct
        ELSE CHOOSE p \in found : \A q \in found : p <= q

\* save_product without its lookup: no listing ever finds its product.
ExistingProductNeverFound(products, product_data) == NoProduct

\* save_product looking up the defaulted pair when extraction left brand or
\* model unset.
ExistingProductByDefaults(products, product_data) ==
    QueryProduct(products,
                 IF product_data.brand # <<>> THEN product_data.brand ELSE Unknown,
                 IF product_data.model # <<>> THEN product_data.model ELSE Unknown)

\* save_product, lines 244-250: the product the listing resolves to.
ExistingProduct(products, product_data) ==
    IF product_data.brand # <<>> /\ product_data.model # <<>>
    THEN QueryProduct(products, product_data.brand, product_data.model)
    ELSE NoProduct

\* save_product adding a pricing row only when the product has none in the
\* listing's store yet.
UpsertOncePerStore(catalog, processed, product_data, existing_product) ==
    [products |-> IF existing_product = NoProduct
                  THEN Append(catalog.products, NewProduct(processed.name, product_data))
                  ELSE catalog.products,
     pricing  |-> IF \E k \in 1..Len(catalog.pricing) :
                        /\ catalog.pricing[k].product_id = existing_product
                        /\ catalog.pricing[k].store_id = processed.store
                  THEN catalog.pricing
                  ELSE Append(catalog.pricing,
                              NewPricing(IF existing_product = NoProduct
                                         THEN Len(catalog.products) + 1
                                         ELSE existing_product,
                                         processed.store, processed.name, TRUE,
                                         "save_product"))]

\* save_product leaving the pricing row of a product it creates without
\* its product.
UpsertLeavesNewUnclaimed(catalog, processed, product_data, existing_product) ==
    [products |-> IF existing_product = NoProduct
                  THEN Append(catalog.products, NewProduct(processed.name, product_data))
                  ELSE catalog.products,
     pricing  |-> Append(catalog.pricing,
                         NewPricing(existing_product, processed.store, processed.name, TRUE,
                                    "save_product"))]

\* save_product, lines 253-283: the product created unless one exists, and
\* the pricing row.
Upsert(catalog, processed, product_data, existing_product) ==
    [products |-> IF existing_product = NoProduct
                  THEN Append(catalog.products, NewProduct(processed.name, product_data))
                  ELSE catalog.products,
     pricing  |-> Append(catalog.pricing,
                         NewPricing(IF existing_product = NoProduct
                                    THEN Len(catalog.products) + 1
                                    ELSE existing_product,
                                    processed.store, processed.name, TRUE, "save_product"))]

SaveParsed(catalog, processed, product_data) ==
    Upsert(catalog, processed, product_data,
           ExistingProduct(catalog.products, product_data))

\* save_product on a catalog: the catalog it leaves.  processed is an entry
\* of the lists process_*_data return: the title and the store.
SaveProduct(catalog, processed, seed) ==
    SaveParsed(catalog, processed, Parsed[seed][processed.name])

\* _find_potential_matches, lines 354-362: whether the listing is a
\* candidate for the product.
IsPotentialMatch(product, match_data) ==
    IF /\ match_data.brand # <<>>
       /\ lower(match_data.brand) = lower(product.brand)
       /\ match_data.model # <<>>
       /\ AtLeast(model_similarity(match_data.model, product.model), 8, 10)
    THEN TRUE
    ELSE /\ TruthyFloat(match_data.size)
         /\ TruthyFloat(product.size)
         /\ match_data.size = product.size
         /\ AtLeast(specs_similarity(match_data.specs, product.specs), 7, 10)

\* _find_potential_matches(product, store): the store's rows that are
\* matched to no product, keep their payload and are candidates, in row
\* order.  A candidate is kept as the id of its row.
RECURSIVE PotentialMatchesFrom(_, _, _, _, _)
PotentialMatchesFrom(product, store, pricing, k, seed) ==
    IF k > Len(pricing) THEN <<>>
    ELSE (IF /\ pricing[k].store_id = store
             /\ pricing[k].product_id = NoProduct
             /\ pricing[k].original_json
             /\ IsPotentialMatch(product, Parsed[seed][pricing[k].original_name])
          THEN <<k>> ELSE <<>>)
         \o PotentialMatchesFrom(product, store, pricing, k + 1, seed)

find_potential_matches(product, store, pricing, seed) ==
    PotentialMatchesFrom(product, store, pricing, 1, seed)

\* find_product_matches, lines 309-329: a candidate with its score, when it
\* is accepted.
Accepted(product, p, store, listing, match) ==
    IF ScoreAccepted(product, match)
    THEN <<[product |-> p, store |-> store, match |-> listing.original_name,
            listing |-> listing.id,
            score   |-> calculate_match_score(product, match)]>>
    ELSE <<>>

\* find_product_matches, lines 307-329: the candidates of one product in
\* one store that are accepted, each with its score.
RECURSIVE AcceptedFrom(_, _, _, _, _, _)
AcceptedFrom(products, p, store, pricing, potential_matches, seed) ==
    IF potential_matches = <<>> THEN <<>>
    ELSE Accepted(products[p], p, store,
                  [id |-> Head(potential_matches),
                   original_name |-> pricing[Head(potential_matches)].original_name],
                  Parsed[seed][pricing[Head(potential_matches)].original_name])
         \o AcceptedFrom(products, p, store, pricing, Tail(potential_matches), seed)

\* find_product_matches copying the product association of the row it
\* matched, which has none, into the row it adds.
MatchPricingOfListingRow(matches) ==
    [k \in 1..Len(matches) |->
       NewPricing(NoProduct, matches[k].store, matches[k].match, TRUE,
                  "find_product_matches")]

\* The rows find_product_matches adds for the accepted matches.
MatchPricing(matches) ==
    [k \in 1..Len(matches) |->
       NewPricing(matches[k].product, matches[k].store, matches[k].match, TRUE,
                  "find_product_matches")]

\* The pricing rows and the match log so far, with the accepted matches.
WithAccepted(acc, accepted) == <<acc[1] \o MatchPricing(accepted), acc[2] \o accepted>>

\* Lines 303-329: the stores the product is not in yet, in id order from
\* store on; acc is <<pricing, matches>> so far.
RECURSIVE StoreLoop(_, _, _, _, _, _, _)
StoreLoop(products, stores, p, current_stores, store, acc, seed) ==
    IF store > Len(stores) THEN acc
    ELSE StoreLoop(products, stores, p, current_stores, store + 1,
                   IF store \in current_stores THEN acc
                   ELSE WithAccepted(acc,
                            AcceptedFrom(products, p, store, acc[1],
                                find_potential_matches(products[p], store, acc[1], seed),
                                seed)),
                   seed)

\* product.pricing as it was loaded before any matching: the stores of the
\* rows save_product wrote for the product.
CurrentStoresAsUpserted(pricing, p) ==
    {pricing[k].store_id :
       k \in {j \in 1..Len(pricing) :
                pricing[j].product_id = p /\ pricing[j].via = "save_product"}}

\* product.pricing: the stores the product has a row in.
CurrentStores(pricing, p) ==
    {pricing[k].store_id : k \in {j \in 1..Len(pricing) : pricing[j].product_id = p}}

\* Lines 296-329: the products from p on.
RECURSIVE ProductLoop(_, _, _, _, _)
ProductLoop(products, stores, p, acc, seed) ==
    IF p > Len(products) THEN acc
    ELSE ProductLoop(products, stores, p + 1,
                     StoreLoop(products, stores, p, CurrentStores(acc[1], p), 1, acc, seed),
                     seed)

\* find_product_matches on a catalog: <<pricing it leaves, matches it returns>>.
FindMatches(products, stores, pricing, seed) ==
    ProductLoop(products, stores, 1, <<pricing, <<>>>>, seed)

(***************************************************************************)
(* The state: the catalog, and a run of process_data over two scraped      *)
(* batches.                                                                *)
(***************************************************************************)
VARIABLES
    hash_seed,        \* the visiting order of the process's sets
    stores,           \* table stores: the name of each store
    products,         \* table products
    pricing,          \* table pricing
    anhoch_data,      \* the "products" of the Anhoch file: raw records
    neptun_data,      \* the "products" of the Neptun file
    anhoch_products,  \* what process_anhoch_data returned
    neptun_products,  \* what process_neptun_data returned
    pc,               \* where process_data is
    next_save,        \* the index of the save loop it is in
    matches,          \* what the last find_product_matches returned
    runs,             \* how many times find_product_matches has run
    raised,           \* the exception process_data raised, "" while none
    args,             \* a call of one function by itself: its arguments
    returned          \* ... and what it returned, <<>> until it returns

vars == <<hash_seed, stores, products, pricing, anhoch_data, neptun_data,
          anhoch_products, neptun_products, pc, next_save, matches, runs,
          raised, args, returned>>

\* Bounds of the model: the records of the two batches together, the claimed
\* and unclaimed rows of a catalog the matching starts from, and the runs of
\* find_product_matches.
MaxListings == 3

MaxCatalogRows == 3

MaxMatchRuns == 2

\* The price texts of the records of the model.
Prices == << <<"9",".","2","8","0",",","0","0">> >>

\* A key that a raw record lacks.
NoKey == 0

\* A raw record: its keys "name", one of the titles, and "price", one of the
\* price texts; the keys "url" and "imageUrl" are there.  The malformed
\* records lack the title or the price.
MalformedRecords == {[name |-> NoKey, price |-> 1], [name |-> 1, price |-> NoKey]}

RawRecords == [name : TitleIds, price : 1..Len(Prices)] \cup MalformedRecords

SeqsUpTo(S, n) == UNION {[1..k -> S] : k \in 0..n}

\* _get_or_create_store(name): the stores it leaves, and the store's id.
StoresWith(name) ==
    IF \E k \in 1..Len(stores) : stores[k] = name THEN stores ELSE Append(stores, name)

StoreId(table, name) == CHOOSE k \in 1..Len(table) : table[k] = name

\* item["name"] (line 48) or item["price"] (line 52) of some record raises
\* KeyError; nothing in the loop or in the method catches it.
RaisesKeyError(data) ==
    \E k \in 1..Len(data) : data[k].name = NoKey \/ data[k].price = NoKey

\* The loop of process_anhoch_data and process_neptun_data: every record
\* parsed and tied to its price and to the store.
Processed(data, store) ==
    [k \in 1..Len(data) |->
       [name |-> data[k].name, store |-> store, price |-> extract_price(Prices[data[k].price])]]


Init ==
    /\ hash_seed \in HashSeeds
    /\ stores = <<>>
    /\ products = <<>>
    /\ pricing = <<>>
    /\ anhoch_data \in SeqsUpTo(RawRecords, MaxListings)
    /\ neptun_data \in SeqsUpTo(RawRecords, MaxListings)
    /\ Len(anhoch_data) + Len(neptun_data) <= MaxListings
    /\ anhoch_products = <<>>
    /\ neptun_products = <<>>
    /\ pc = "process_anhoch"
    /\ next_save = 1
    /\ matches = <<>>
    /\ runs = 0
    /\ raised = ""
    /\ args = <<>>
    /\ returned = <<>>

\* process_data, line 61: the store is committed, then the records are read;
\* a KeyError leaves process_data (lines 93-96) where it is.
ProcessAnhochData ==
    /\ pc = "process_anhoch"
    /\ raised = ""
    /\ stores' = StoresWith("Anhoch")
    /\ IF RaisesKeyError(anhoch_data)
       THEN raised' = "KeyError" /\ UNCHANGED <<anhoch_products, pc>>
       ELSE /\ anhoch_products' = Processed(anhoch_data, StoreId(stores', "Anhoch"))
            /\ pc' = "process_neptun"
            /\ raised' = raised
    /\ UNCHANGED <<args, returned, hash_seed, products, pricing, anhoch_data, neptun_data,
                   neptun_products, next_save, matches, runs>>

\* process_data, line 66.
ProcessNeptunData ==
    /\ pc = "process_neptun"
    /\ raised = ""
    /\ stores' = StoresWith("Neptun")
    /\ IF RaisesKeyError(neptun_data)
       THEN raised' = "KeyError" /\ UNCHANGED <<neptun_products, pc>>
       ELSE /\ neptun_products' = Processed(neptun_data, StoreId(stores', "Neptun"))
            /\ pc' = "save_anhoch"
            /\ raised' = raised
    /\ UNCHANGED <<args, returned, hash_seed, products, pricing, anhoch_data, neptun_data,
                   anhoch_products, next_save, matches, runs>>

\* matcher.save_product(product_data)
Catalog == [products |-> products, pricing |-> pricing]

CatalogBecomes(catalog) ==
    /\ products' = catalog.products
    /\ pricing' = catalog.pricing

save_product(processed) == CatalogBecomes(SaveProduct(Catalog, processed, hash_seed))

\* The places where save_product reaches the database, and the session can
\* fail: the lookup (lines 247-250), the commit of a new product (line 267)
\* and the commit of the pricing row (line 283).
FailurePoints == {"query", "commit_product", "commit_pricing"}

\* Whether a call gets to the place.
Reaches(product_data, existing_product, at) ==
    CASE at = "query" -> product_data.brand # <<>> /\ product_data.model # <<>>
      [] at = "commit_product" -> existing_product = NoProduct
      [] at = "commit_pricing" -> TRUE

\* A failure undoing the whole run: the catalog as it was before the first
\* call.
FailedSaveUndoesRun(catalog, processed, product_data, existing_product, at) ==
    [products |-> <<>>, pricing |-> <<>>]

\* The catalog that a call failing at a place leaves.  What was committed
\* stays (the new product, when it is the pricing row's commit that fails);
\* what was only added is dropped by db.rollback() (process_data, line 95).
FailedSave(catalog, processed, product_data, existing_product, at) ==
    [products |-> IF at = "commit_pricing" /\ existing_product = NoProduct
                  THEN Append(catalog.products, NewProduct(processed.name, product_data))
                  ELSE catalog.products,
     pricing  |-> catalog.pricing]

SaveFailsAt(catalog, processed, product_data, existing_product, at) ==
    /\ Reaches(product_data, existing_product, at)
    /\ CatalogBecomes(FailedSave(catalog, processed, product_data, existing_product, at))

\* matcher.save_product(product_data) raising out of the session.
save_product_fails(processed) ==
    \E at \in FailurePoints :
        SaveFailsAt(Catalog, processed, Parsed[hash_seed][processed.name],
                    ExistingProduct(products, Parsed[hash_seed][processed.name]), at)

\* process_data, lines 72-74: one round of the first loop.
SaveAnhochProduct ==
    /\ pc = "save_anhoch"
    /\ raised = ""
    /\ next_save <= Len(anhoch_products)
    /\ save_product(anhoch_products[next_save])
    /\ next_save' = next_save + 1
    /\ UNCHANGED <<raised, args, returned, hash_seed, stores, anhoch_data, neptun_data,
                   anhoch_products, neptun_products, pc, matches, runs>>

\* Line 73 raising: the exception leaves process_data (lines 93-96).
SaveAnhochProductFails ==
    /\ pc = "save_anhoch"
    /\ raised = ""
    /\ next_save <= Len(anhoch_products)
    /\ save_product_fails(anhoch_products[next_save])
    /\ raised' = "SQLAlchemyError"
    /\ UNCHANGED <<args, returned, hash_seed, stores, anhoch_data, neptun_data,
                   anhoch_products, neptun_products, pc, next_save, matches, runs>>

\* The first loop ending straight in the matching, the second loop never
\* run.
AnhochSavedThenMatch ==
    /\ pc = "save_anhoch"
    /\ raised = ""
    /\ next_save > Len(anhoch_products)
    /\ pc' = "find_matches"
    /\ next_save' = 1
    /\ UNCHANGED <<raised, args, returned, hash_seed, stores, products, pricing,
                   anhoch_data, neptun_data, anhoch_products, neptun_products, matches,
                   runs>>

\* The first loop ends.
AnhochSaved ==
    /\ pc = "save_anhoch"
    /\ raised = ""
    /\ next_save > Len(anhoch_products)
    /\ pc' = "save_neptun"
    /\ next_save' = 1
    /\ UNCHANGED <<raised, args, returned, hash_seed, stores, products, pricing,
                   anhoch_data, neptun_data, anhoch_products, neptun_products, matches,
                   runs>>

\* process_data, lines 76-78: one round of the second loop.
SaveNeptunProduct ==
    /\ pc = "save_neptun"
    /\ raised = ""
    /\ next_save <= Len(neptun_products)
    /\ save_product(neptun_products[next_save])
    /\ next_save' = next_save + 1
    /\ UNCHANGED <<raised, args, returned, hash_seed, stores, anhoch_data, neptun_data,
                   anhoch_products, neptun_products, pc, matches, runs>>

\* Line 77 raising.
SaveNeptunProductFails ==
    /\ pc = "save_neptun"
    /\ raised = ""
    /\ next_save <= Len(neptun_products)
    /\ save_product_fails(neptun_products[next_save])
    /\ raised' = "SQLAlchemyError"
    /\ UNCHANGED <<args, returned, hash_seed, stores, anhoch_data, neptun_data,
                   anhoch_products, neptun_products, pc, next_save, matches, runs>>

\* The second loop ends.
NeptunSaved ==
    /\ pc = "save_neptun"
    /\ raised = ""
    /\ next_save > Len(neptun_products)
    /\ pc' = "find_matches"
    /\ UNCHANGED <<raised, args, returned, hash_seed, stores, products, pricing,
                   anhoch_data, neptun_data, anhoch_products, neptun_products, next_save,
                   matches, runs>>

\* matcher.find_product_matches()
Returns(found) ==
    /\ pricing' = found[1]
    /\ matches' = found[2]
    /\ runs' = runs + 1

find_product_matches == Returns(FindMatches(products, stores, pricing, hash_seed))

\* process_data, line 82.
FindProductMatches ==
    /\ pc = "find_matches"
    /\ raised = ""
    /\ find_product_matches
    /\ pc' = "done"
    /\ UNCHANGED <<raised, args, returned, hash_seed, stores, products, anhoch_data,
                   neptun_data, anhoch_products, neptun_products, next_save>>

\* find_product_matches called once more on the same matcher, nothing else
\* having touched the catalog.
FindProductMatchesAgain ==
    /\ pc = "done"
    /\ raised = ""
    /\ runs < MaxMatchRuns
    /\ find_product_matches
    /\ UNCHANGED <<raised, args, returned, hash_seed, stores, products, anhoch_data,
                   neptun_data, anhoch_products, neptun_products, pc, next_save>>

Next ==
    \/ ProcessAnhochData
    \/ ProcessNeptunData
    \/ SaveAnhochProduct
    \/ SaveAnhochProductFails
    \/ AnhochSaved
    \/ SaveNeptunProduct
    \/ SaveNeptunProductFails
    \/ NeptunSaved
    \/ FindProductMatches
    \/ FindProductMatchesAgain

\* A run of process_data on an empty catalog.
Spec == Init /\ [][Next]_vars

(***************************************************************************)
(* The claims about the upsert phase and the order of a run (under Spec).  *)
(***************************************************************************)
\* The record the save loop is at, and a step of save_product.
CurrentListing ==
    IF pc = "save_anhoch" THEN anhoch_products[next_save] ELSE neptun_products[next_save]

SaveStep == pc \in {"save_anhoch", "save_neptun"} /\ next_save' = next_save + 1

\* How many times save_product has been called in the run.
SaveCalls ==
    IF pc \in {"process_anhoch", "process_neptun"} THEN 0
    ELSE IF pc = "save_anhoch" THEN next_save - 1
    ELSE IF pc = "save_neptun" THEN Len(anhoch_products) + next_save - 1
    ELSE Len(anhoch_products) + Len(neptun_products)

\* The rows of pricing that an operation wrote, in row order.
RECURSIVE RowsVia(_, _)
RowsVia(rows, via) ==
    IF rows = <<>> THEN <<>>
    ELSE (IF Head(rows).via = via THEN <<Head(rows)>> ELSE <<>>) \o RowsVia(Tail(rows), via)

SameIdentity(p, q) ==
    /\ p # q
    /\ products[p].brand = products[q].brand
    /\ products[p].model = products[q].model

\* C1 as stated: after any sequence of save_product calls no two products
\* hold the same stored (brand, model), except products whose brand and
\* model are both the default "Unknown".
C1_UniqueExceptBothUnknown ==
    \A p, q \in 1..Len(products) :
        SameIdentity(p, q) => (products[p].brand = Unknown /\ products[p].model = Unknown)

\* C1 amended: after any sequence of save_product calls no two products hold
\* the same stored (brand, model), except products whose brand or model is
\* the default "Unknown".
C1_UniqueExceptAnyUnknown ==
    \A p, q \in 1..Len(products) :
        SameIdentity(p, q) => (products[p].brand = Unknown \/ products[p].model = Unknown)

\* Two listings of different titles were attached to one product, next to
\* another product.
C1_Witness ==
    /\ Len(products) >= 2
    /\ \E i, j \in 1..Len(pricing) :
          /\ pricing[i].product_id = pricing[j].product_id
          /\ pricing[i].original_name # pricing[j].original_name

\* The run of the two listings "Dell P2425H Monitor 24 inch FHD 100Hz" and
\* 'P2425H 24" FHD Dell monitor', one from each store, at its end.
C2_RunDone ==
    /\ Len(anhoch_data) = 1
    /\ Len(neptun_data) = 1
    /\ \/ anhoch_data[1].name = 1 /\ neptun_data[1].name = 2
       \/ anhoch_data[1].name = 2 /\ neptun_data[1].name = 1
    /\ pc = "done"

\* What extraction and scoring make of the two titles.
C2_Extraction ==
    /\ Parsed[hash_seed][1].brand = <<"D","e","l","l">>
    /\ Parsed[hash_seed][2].brand = <<"D","e","l","l">>
    /\ AtLeast(model_similarity(Parsed[hash_seed][1].model, Parsed[hash_seed][2].model), 8, 10)
    /\ Len(products) >= 1
    /\ AtLeast(calculate_match_score(products[1],
                                     Parsed[hash_seed][neptun_data[1].name]), 8, 10)

\* C2 as stated: when the two listings are processed in one run, both
\* extract brand "Dell", their models have similarity >= 0.8, their weighted
\* score is >= 0.8, and the matching phase produces exactly one accepted
\* price link between them.
C2_MatchingLinksThem ==
    C2_RunDone =>
        /\ C2_Extraction
        /\ Len(matches) = 1
        /\ Len(RowsVia(pricing, "find_product_matches")) = 1

\* C2 amended: when the two listings are processed in one run, both extract
\* brand "Dell", their models have similarity >= 0.8, their weighted score
\* is >= 0.8, and they end as the two price links of one product, one per
\* store: the upsert of the second listing attaches it to the product of
\* the first, and the matching phase produces no link.
C2_UpsertLinksThem ==
    C2_RunDone =>
        /\ C2_Extraction
        /\ Len(products) = 1
        /\ Len(pricing) = 2
        /\ \A k \in 1..2 :
              /\ pricing[k].product_id = 1
              /\ pricing[k].store_id = k
              /\ pricing[k].via = "save_product"
        /\ pricing[1].original_name = anhoch_data[1].name
        /\ pricing[2].original_name = neptun_data[1].name
        /\ matches = <<>>

C2_Witness == C2_RunDone /\ runs = 1

\* C7: every save_product call for a listing whose extracted brand and model
\* are both unset creates a new product with brand "Unknown" and model
\* "Unknown", however many such products exist, and ties the listing to it,
\* never to an existing product.
C7_UnknownAlwaysCreated ==
    [][(/\ SaveStep
        /\ Parsed[hash_seed][CurrentListing.name].brand = <<>>
        /\ Parsed[hash_seed][CurrentListing.name].model = <<>>)
       => /\ Len(products') = Len(products) + 1
          /\ SubSeq(products', 1, Len(products)) = products
          /\ products'[Len(products')].brand = Unknown
          /\ products'[Len(products')].model = Unknown
          /\ pricing'[Len(pricing')].product_id = Len(products')]_vars

\* A second listing with neither brand nor model was saved: two products
\* "Unknown"/"Unknown" exist.
C7_Witness ==
    \E p, q \in 1..Len(products) :
        /\ SameIdentity(p, q)
        /\ products[p].brand = Unknown
        /\ products[p].model = Unknown

\* C8: every save_product call adds exactly one pricing row, of the
\* listing's store and of the product that holds the listing's brand and
\* model (the defaults when unset), whether or not the pair has a row
\* already; after n calls the catalog holds exactly n rows written by
\* save_product.
C8_OneLinkPerSave ==
    /\ [](Len(RowsVia(pricing, "save_product")) = SaveCalls)
    /\ [][SaveStep =>
            /\ Len(pricing') = Len(pricing) + 1
            /\ SubSeq(pricing', 1, Len(pricing)) = pricing
            /\ LET row == pricing'[Len(pricing')]
                   product_data == Parsed[hash_seed][CurrentListing.name]
               IN  /\ row.store_id = CurrentListing.store
                   /\ row.original_name = CurrentListing.name
                   /\ row.via = "save_product"
                   /\ row.product_id \in 1..Len(products')
                   /\ products'[row.product_id].brand =
                         (IF product_data.brand # <<>> THEN product_data.brand ELSE Unknown)
                   /\ products'[row.product_id].model =
                         (IF product_data.model # <<>> THEN product_data.model ELSE Unknown)]_vars

\* Two calls left two rows of one product in one store.
C8_Witness ==
    \E i, j \in 1..Len(pricing) :
        /\ i # j
        /\ pricing[i].via = "save_product"
        /\ pricing[j].via = "save_product"
        /\ pricing[i].product_id = pricing[j].product_id
        /\ pricing[i].store_id = pricing[j].store_id

\* The records of the two batches in source-list order, each with the name
\* of its store.
SourceOrder ==
    [k \in 1..Len(anhoch_data) |-> [name |-> anhoch_data[k].name, store |-> "Anhoch"]]
    \o [k \in 1..Len(neptun_data) |-> [name |-> neptun_data[k].name, store |-> "Neptun"]]

\* C10: in a process_data run the listings are upserted in source-list
\* order, all Anhoch records and then all Neptun records;
\* find_product_matches starts only after save_product has completed for
\* every listing; no upsert happens once the matching has begun.
C10_UpsertsThenMatching ==
    /\ [](LET saved == RowsVia(pricing, "save_product")
          IN  /\ Len(saved) <= Len(SourceOrder)
              /\ \A k \in 1..Len(saved) :
                    /\ saved[k].original_name = SourceOrder[k].name
                    /\ stores[saved[k].store_id] = SourceOrder[k].store)
    /\ [][runs' # runs =>
            Len(RowsVia(pricing, "save_product")) = Len(SourceOrder)]_vars
    /\ [][runs >= 1 =>
            /\ products' = products
            /\ RowsVia(pricing', "save_product") = RowsVia(pricing, "save_product")]_vars

\* A run of two Anhoch listings and a Neptun listing, all of different
\* titles, has matched.
C10_Witness ==
    /\ Len(anhoch_data) = 2
    /\ Len(neptun_data) = 1
    /\ anhoch_data[1].name # anhoch_data[2].name
    /\ anhoch_data[2].name # neptun_data[1].name
    /\ runs >= 1

\* The records of a batch that have their title and their price, in order.
WellFormed(data) == SelectSeq(data, LAMBDA r : r.name # NoKey /\ r.price # NoKey)

\* C11: when a raw record of an input batch lacks a required field (title
\* or price), only that record is skipped: the run does not abort, every
\* other record of the batch is processed and saved, and the run goes on to
\* the matching phase.
C11_MalformedRecordSkipped ==
    /\ raised # "KeyError"
    /\ (pc = "done" /\ RaisesKeyError(anhoch_data \o neptun_data)) =>
          /\ runs >= 1
          /\ [k \in 1..Len(RowsVia(pricing, "save_product")) |->
                RowsVia(pricing, "save_product")[k].original_name]
             = [k \in 1..Len(WellFormed(anhoch_data \o neptun_data)) |->
                  WellFormed(anhoch_data \o neptun_data)[k].name]

\* C12: when a persistence operation fails during the k-th save_product
\* call of a run, the failure propagates to the caller of process_data and
\* the rest of the run is aborted (no further upsert, no matching phase),
\* while the stores, products and price links committed by the earlier k-1
\* calls stay in the catalog.
C12_FailureAbortsAndKeeps ==
    /\ [][(raised = "" /\ raised' = "SQLAlchemyError") =>
            /\ stores' = stores
            /\ Len(products') >= Len(products)
            /\ SubSeq(products', 1, Len(products)) = products
            /\ pricing' = pricing
            /\ Len(RowsVia(pricing', "save_product")) = SaveCalls
            /\ \A p \in 1..Len(products) :
                  \E k \in 1..Len(pricing') : pricing'[k].product_id = p]_vars
    /\ [][raised # "" => UNCHANGED vars]_vars

\* A call of the second loop failed after calls that had committed.
C12_Witness ==
    /\ raised = "SQLAlchemyError"
    /\ pc = "save_neptun"
    /\ next_save >= 2
    /\ Len(products) >= 2
    /\ Len(pricing) >= 2

\* C20: in every state reachable from an empty catalog through
\* _get_or_create_store and save_product, every price link has a product
\* association, so no listing is ever unclaimed; find_product_matches run
\* after any sequence of save_product calls creates no price link and
\* returns an empty match list.
C20_NoUnclaimedFromEmpty ==
    /\ [](\A k \in 1..Len(pricing) : pricing[k].product_id # NoProduct)
    /\ [][runs' # runs => (pricing' = pricing /\ matches' = <<>>)]_vars

\* find_product_matches has run on a catalog with a link in each store,
\* wrote none and returned none.
C20_Witness ==
    /\ runs >= 1
    /\ Len(stores) = 2
    /\ \A s \in 1..Len(stores) : \E k \in 1..Len(pricing) : pricing[k].store_id = s
    /\ \A k \in 1..Len(pricing) : pricing[k].via = "save_product"
    /\ matches = <<>>

(***************************************************************************)
(* The matching phase on a catalog that holds unclaimed listings: rows of  *)
(* pricing with no product association.  The catalog is what save_product  *)
(* leaves of some listings, plus unclaimed rows.                           *)
(***************************************************************************)
\* The titles of the catalogs the matching starts from.
CatalogTitles == {2, 3, 5, 7}

\* The titles of its unclaimed rows that lost their payload.
PayloadLessTitles == {2}

CatalogListings == [name : CatalogTitles, store : 1..2]

UnclaimedRows ==
    {NewPricing(NoProduct, store, t, TRUE, "unclaimed") : store \in 1..2, t \in CatalogTitles}
    \cup
    {NewPricing(NoProduct, store, t, FALSE, "unclaimed") :
       store \in 1..2, t \in PayloadLessTitles}

RECURSIVE SaveAll(_, _, _)
SaveAll(catalog, listings, seed) ==
    IF listings = <<>> THEN catalog
    ELSE SaveAll(SaveProduct(catalog, Head(listings), seed), Tail(listings), seed)

CatalogIs(catalog, unclaimed) ==
    /\ products = catalog.products
    /\ pricing = catalog.pricing \o unclaimed

InitCatalog ==
    /\ hash_seed \in HashSeeds
    /\ stores = <<"Anhoch", "Neptun">>
    /\ \E listings \in SeqsUpTo(CatalogListings, MaxCatalogRows),
          unclaimed \in SeqsUpTo(UnclaimedRows, MaxCatalogRows) :
          /\ Len(listings) + Len(unclaimed) <= MaxCatalogRows
          /\ CatalogIs(SaveAll([products |-> <<>>, pricing |-> <<>>], listings, hash_seed),
                       unclaimed)
    /\ anhoch_data = <<>>
    /\ neptun_data = <<>>
    /\ anhoch_products = <<>>
    /\ neptun_products = <<>>
    /\ pc = "find_matches"
    /\ next_save = 1
    /\ matches = <<>>
    /\ runs = 0
    /\ raised = ""
    /\ args = <<>>
    /\ returned = <<>>

NextCatalog ==
    \/ FindProductMatches
    \/ FindProductMatchesAgain

SpecCatalog == InitCatalog /\ [][NextCatalog]_vars

(***************************************************************************)
(* The claims about the matching phase (under SpecCatalog).                *)
(***************************************************************************)
\* A step of find_product_matches.
MatchStep == runs' = runs + 1

\* The rows that tie product p to store s.
LinkCount(rows, p, s) ==
    Cardinality({k \in 1..Len(rows) : rows[k].product_id = p /\ rows[k].store_id = s})

\* C3: in one run of find_product_matches, from any catalog, each unclaimed
\* listing is consumed by at most one accepted match: it is not linked to a
\* second product in the same run.
C3_ListingConsumedOnce ==
    \A i, j \in 1..Len(matches) :
        matches[i].listing = matches[j].listing => matches[i].product = matches[j].product

\* C4: in one run of find_product_matches at most one price link is created
\* per (product, store) pair, even when several unclaimed listings of the
\* store are accepted for the product.
C4_OneLinkPerProductAndStore ==
    \A i, j \in 1..Len(matches) :
        (matches[i].product = matches[j].product /\ matches[i].store = matches[j].store)
            => i = j

\* C5: a second run of find_product_matches, nothing else having changed
\* the catalog, creates no price link: every (product, store) pair has as
\* many links after it as before, and the run returns no match.
C5_SecondRunCreatesNoLink ==
    [][(MatchStep /\ runs >= 1) =>
          /\ \A p \in 1..Len(products), s \in 1..Len(stores) :
                LinkCount(pricing', p, s) = LinkCount(pricing, p, s)
          /\ Len(pricing') = Len(pricing)
          /\ matches' = <<>>]_vars

\* The second run is over, and the first had linked a listing.
C5_Witness ==
    /\ runs = 2
    /\ \E k \in 1..Len(pricing) : pricing[k].via = "find_product_matches"

\* The candidate test of the claim: path (a), else path (b).
C6_Candidate(product, listing) ==
    IF /\ lower(listing.brand) = lower(product.brand)
       /\ AtLeast(model_similarity(listing.model, product.model), 8, 10)
    THEN TRUE
    ELSE /\ listing.size # <<>>
         /\ listing.size = product.size
         /\ AtLeast(specs_similarity(listing.specs, product.specs), 7, 10)

\* C6: find_product_matches creates a price link between product P and an
\* unclaimed listing L of a store not yet linked to P if and only if L is a
\* candidate for P (path (a): same brand, case-insensitively, and model
\* similarity >= 0.8; otherwise path (b): same size and specs similarity
\* >= 0.7) and the weighted match score of P and L is >= 0.8; every link
\* it creates is in the returned match log with its score.  The claim is
\* stated here for the listings that kept their payload, the only ones
\* _find_potential_matches reads; the score is the weighted mean itself.
C6_LinkIffCandidateAndScore ==
    [][MatchStep =>
          /\ \A p \in 1..Len(products), k \in 1..Len(pricing) :
                (/\ pricing[k].product_id = NoProduct
                 /\ pricing[k].original_json
                 /\ LinkCount(pricing, p, pricing[k].store_id) = 0)
                => ((\E m \in 1..Len(matches') :
                        matches'[m].product = p /\ matches'[m].listing = k)
                    <=> (/\ C6_Candidate(products[p],
                                         Parsed[hash_seed][pricing[k].original_name])
                         /\ AtLeast(calculate_match_score(
                                        products[p],
                                        Parsed[hash_seed][pricing[k].original_name]),
                                    8, 10)))
          /\ Len(pricing') = Len(pricing) + Len(matches')
          /\ SubSeq(pricing', 1, Len(pricing)) = pricing
          /\ \A m \in 1..Len(matches') :
                /\ pricing'[Len(pricing) + m].product_id = matches'[m].product
                /\ pricing'[Len(pricing) + m].store_id = matches'[m].store
                /\ pricing'[Len(pricing) + m].original_name = matches'[m].match
                /\ matches'[m].score =
                      calculate_match_score(products[matches'[m].product],
                                            Parsed[hash_seed][matches'[m].match])]_vars

\* C9: each price link that save_product or find_product_matches wrote
\* names exactly one product of the catalog and exactly one store of the
\* catalog.
C9_LinksNameProductAndStore ==
    \A k \in 1..Len(pricing) :
        pricing[k].via \in {"save_product", "find_product_matches"} =>
            /\ pricing[k].product_id \in 1..Len(products)
            /\ pricing[k].store_id \in 1..Len(stores)

\* The catalog holds a link of each operation.
C9_Witness ==
    /\ \E k \in 1..Len(pricing) : pricing[k].via = "save_product"
    /\ \E k \in 1..Len(pricing) : pricing[k].via = "find_product_matches"

(***************************************************************************)
(* The functions by themselves: one call of a function of the matcher, on  *)
(* arguments drawn from a bounded set.                                     *)
(***************************************************************************)
\* Bounds of the arguments: the length of a price text and of a model, the
\* keys of a specs map, the tokens of a title.
MaxPriceLen == 4

MaxModelLen == 2

MaxSpecKeys == 3

MaxTitleTokens == 2

\* Price texts: a digit or two, the separators and a letter, and the texts
\* of the docstring of _extract_price and of the documentation.
PriceStrings ==
    SeqsUpTo({"0", "5", ",", ".", "d"}, MaxPriceLen)
    \cup {<<"9","9","9",".","9","9">>, <<"9",".","2","8","0",",","0","0">>,
       <<"4",".","9","9","9",",","0","0"," ","d","e","n",".">>,
       <<"9",".","2","8","0",",","0","0",".">>,
       <<"4",".","9","9","9",".",",","0","0"," ","d","e","n",".">>}

\* Models: a capital, a small letter, a digit and a separator.
ModelStrings == SeqsUpTo({"A", "b", "1", "-"}, MaxModelLen)

\* The keys of a specs map, each with the values it takes.
SpecsValues ==
    << <<"size", {240, 270}>>,
       <<"resolution", {<<"1","9","2","0","x","1","0","8","0">>,
          <<"2","5","6","0","x","1","4","4","0">>}>>,
       <<"curved", {TRUE}>>,
       <<"panel_type", {<<"I","P","S">>, <<"V","A">>}>>,
       <<"refresh_rate", {60, 144}>> >>

\* The specs maps over the first n keys.
RECURSIVE SpecsMaps(_)
SpecsMaps(n) ==
    IF n = 0 THEN {EmptyDict}
    ELSE SpecsMaps(n - 1)
         \cup {Put(d, SpecsValues[n][1], v) : d \in SpecsMaps(n - 1), v \in SpecsValues[n][2]}

\* The attributes of a product row or of a listing: each unset or one of
\* its values; others holds the values only one side takes.
Sides(others) ==
    [brand        : {<<>>, <<"D","e","l","l">>} \cup (others \cap {<<"H","P">>}),
     model        : {<<>>,
        <<"P","2","4","2","5","H">>} \cup (others \cap {<<"P","2","4","2","5","H","E">>}),
     size         : {<<>>, <<0>>, <<240>>} \cup (others \cap {<<270>>}),
     resolution   : {<<>>,
        <<"1","9","2","0","x","1","0","8","0">>} \cup (others \cap {<<"2","5","6","0","x","1","4","4","0">>}),
     refresh_rate : {<<>>, <<60>>} \cup (others \cap {<<144>>}),
     panel_type   : {<<>>, <<"I","P","S">>} \cup (others \cap {<<"V","A">>})]

\* Titles: tokens with a space between them.
TitleTokens ==
    << <<"D","e","l","l">>, <<"H","P">>, <<"M","o","n","i","t","o","r">>,
       <<"P","2","4","2","5","H">>, <<"2","7"," ","i","n","c","h">>, <<"2","7","\"">>,
       <<"2","7","-","i","n","c","h">>,
       <<"Q","D","-","O","L","E","D">>, <<"I","P","S">> >>

RECURSIVE Join(_)
Join(q) ==
    IF q = <<>> THEN <<>>
    ELSE IF Len(q) = 1 THEN TitleTokens[q[1]]
    ELSE TitleTokens[q[1]] \o <<" ">> \o Join(Tail(q))

\* Titles of more tokens: a model of the brand next to text another stage
\* would take, and resolutions by term and by literal.
LongerTitles ==
    { <<"D","e","l","l"," ","P","2","4","2","5","H"," ","Q","D","-","O","L","E","D">>,
       <<"D","e","l","l"," ","2","7","-","i","n","c","h"," ","P","2","4","2","5","H">>,
       <<"D","e","l","l"," ","2","7","\""," ","P","2","4","2","5","H"," ","Q","D","-","O","L","E","D">>,
      <<"S","a","m","s","u","n","g"," ","L","S","2","7","C","3","6","0","E","A","U","X","E","N"," ","Q","D","-","O","L","E","D">>,
         <<"L","G"," ","2","7"," ","i","n","c","h"," ","2","4","G","Q","5","0","F","-","B">>,
         <<"H","P"," ","2","7","-","i","n","c","h"," ","Q","D","-","O","L","E","D">>,
      <<"M","o","n","i","t","o","r"," ","U","W","Q","H","D">>,
         <<"M","o","n","i","t","o","r"," ","u","l","t","r","a","w","i","d","e"," ","Q","H","D"," ","3","4","\"">>,
         <<"M","o","n","i","t","o","r"," ","W","Q","H","D">>,
         <<"M","o","n","i","t","o","r"," ","4","K">>,
      <<"M","o","n","i","t","o","r"," ","U","W","Q","H","D"," ","3","4","4","0","x","1","4","4","0">>,
         <<"M","o","n","i","t","o","r"," ","F","H","D"," ","2","5","6","0","x","1","4","4","0">>,
         <<"M","o","n","i","t","o","r"," ","3","4","4","0","x","1","4","4","0">> }

\* The calls.
Calls ==
    [fn : {"_extract_price"}, price_str : PriceStrings]
    \cup [fn : {"_model_similarity"}, model1 : ModelStrings, model2 : ModelStrings]
    \cup [fn : {"_specs_similarity"},
          specs1 : SpecsMaps(MaxSpecKeys), specs2 : SpecsMaps(MaxSpecKeys)]
    \cup [fn : {"_calculate_match_score"},
          product : Sides({}),
          match_data : Sides({<<"H","P">>, <<"P","2","4","2","5","H","E">>, <<270>>,
             <<"2","5","6","0","x","1","4","4","0">>, <<144>>, <<"V","A">>})]
    \cup [fn : {"_parse_monitor_attributes"},
          product_name : {Join(q) : q \in SeqsUpTo(1..Len(TitleTokens), MaxTitleTokens)}
                           \cup LongerTitles]

\* A matcher on an empty catalog, about to make one call.  The hash seed of
\* the process matters to _parse_monitor_attributes only.
InitCalls ==
    /\ args \in Calls
    /\ hash_seed \in (IF args.fn = "_parse_monitor_attributes" THEN HashSeeds ELSE {"fwd"})
    /\ returned = <<>>
    /\ pc = "call"
    /\ stores = <<>>
    /\ products = <<>>
    /\ pricing = <<>>
    /\ anhoch_data = <<>>
    /\ neptun_data = <<>>
    /\ anhoch_products = <<>>
    /\ neptun_products = <<>>
    /\ next_save = 1
    /\ matches = <<>>
    /\ runs = 0
    /\ raised = ""

\* The call of fn returns value.
Call(fn, value) ==
    /\ pc = "call"
    /\ args.fn = fn
    /\ returned' = <<value>>
    /\ pc' = "returned"
    /\ UNCHANGED <<hash_seed, stores, products, pricing, anhoch_data, neptun_data,
                   anhoch_products, neptun_products, next_save, matches, runs, raised,
                   args>>

ExtractPrice == Call("_extract_price", extract_price(args.price_str))

ModelSimilarity == Call("_model_similarity", model_similarity(args.model1, args.model2))

SpecsSimilarity == Call("_specs_similarity", specs_similarity(args.specs1, args.specs2))

CalculateMatchScore ==
    Call("_calculate_match_score", calculate_match_score(args.product, args.match_data))

ParseMonitorAttributes ==
    Call("_parse_monitor_attributes", parse_monitor_attributes(args.product_name, hash_seed))

NextCalls ==
    \/ ExtractPrice
    \/ ModelSimilarity
    \/ SpecsSimilarity
    \/ CalculateMatchScore
    \/ ParseMonitorAttributes

SpecCalls == InitCalls /\ [][NextCalls]_vars

(***************************************************************************)
(* The claims about the functions (under SpecCalls).                       *)
(***************************************************************************)
\* The call of fn has returned.
Returned(fn) == pc = "returned" /\ args.fn = fn

Count(s, c) == Cardinality({i \in 1..Len(s) : s[i] = c})

\* The text the claim describes: only digits, commas and dots kept; with
\* both a comma and a dot, the dots deleted and the commas turned into
\* dots; with commas only, the commas turned into dots; else unchanged.
C13_Text(price_str) ==
    LET kept    == SelectSeq(price_str, LAMBDA c : c \in DigitSet \cup {",", "."})
        undotted == IF Count(kept, ",") > 0 /\ Count(kept, ".") > 0
                    THEN SelectSeq(kept, LAMBDA c : c # ".") ELSE kept
    IN  [i \in 1..Len(undotted) |-> IF undotted[i] = "," THEN "." ELSE undotted[i]]

\* Whether value is the decimal value of text: text is digits around at
\* most one dot, and value is the digits before the dot plus the digits
\* behind it as a decimal fraction; value is 0.0 when text is no number.
C13_ValueOf(text, value) ==
    IF Count(text, ".") <= 1 /\ Len(text) > Count(text, ".")
    THEN LET dot    == IF Count(text, ".") = 0 THEN Len(text) + 1
                       ELSE CHOOSE i \in 1..Len(text) : text[i] = "."
             whole  == SubSeq(text, 1, dot - 1)
             behind == SubSeq(text, dot + 1, Len(text))
         IN  value[1] * Pow10(Len(behind))
               = (DigitsValue(whole) * Pow10(Len(behind)) + DigitsValue(behind)) * value[2]
    ELSE value[1] = 0

\* value = n / d
IsFraction(value, n, d) == value[1] * d = n * value[2]

\* C13: for every price string, _extract_price returns a non-negative number
\* without raising, the decimal value of the text described above, or 0.0
\* when that text is not a valid number; "999.99" gives 999.99, "9.280,00"
\* gives 9280.00 and "4.999,00 den." gives 4999.00.
C13_PriceNormalized ==
    Returned("_extract_price") =>
        /\ returned[1][1] >= 0
        /\ returned[1][2] > 0
        /\ C13_ValueOf(C13_Text(args.price_str), returned[1])
        /\ args.price_str = <<"9","9","9",".","9","9">> => IsFraction(returned[1], 99999, 100)
        /\ args.price_str = <<"9",".","2","8","0",",","0","0">> => IsFraction(returned[1], 9280, 1)
        /\ args.price_str = <<"4",".","9","9","9",",","0","0"," ","d","e","n",".">> => IsFraction(returned[1], 4999, 1)

\* The price "4.999,00 den." was read as 4999.00.
C13_Witness ==
    /\ Returned("_extract_price")
    /\ args.price_str = <<"4",".","9","9","9",",","0","0"," ","d","e","n",".">>
    /\ IsFraction(returned[1], 4999, 1)

\* A model upper-cased and rid of its non-alphanumeric characters.
C14_Normalized(model) ==
    SelectSeq([i \in 1..Len(model) |-> UpperChar(model[i])],
              LAMBDA c : c \in UpperSet \cup DigitSet)

\* C14: for all model strings a and b, _model_similarity(a, b) equals
\* _model_similarity(b, a) and lies in [0,1]; it is 1.0 when the two strings
\* are equal after upper-casing and removing non-alphanumeric characters and
\* that normalized string is non-empty; it is 0.0 when either normalized
\* string is empty.
C14_SimilaritySymmetric ==
    Returned("_model_similarity") =>
        /\ returned[1][2] > 0
        /\ returned[1][1] >= 0
        /\ returned[1][1] <= returned[1][2]
        /\ IsFraction(returned[1], model_similarity(args.model2, args.model1)[1],
                      model_similarity(args.model2, args.model1)[2])
        /\ (/\ C14_Normalized(args.model1) = C14_Normalized(args.model2)
            /\ C14_Normalized(args.model1) # <<>>) => IsFraction(returned[1], 1, 1)
        /\ (C14_Normalized(args.model1) = <<>> \/ C14_Normalized(args.model2) = <<>>)
              => IsFraction(returned[1], 0, 1)

\* Two strings of different lengths that are one model once normalized.
C14_Witness ==
    /\ Returned("_model_similarity")
    /\ Len(args.model1) # Len(args.model2)
    /\ C14_Normalized(args.model1) = C14_Normalized(args.model2)
    /\ IsFraction(returned[1], 1, 1)

\* The keys both maps of the call have, and those of them with one value.
C15_Shared == (DOMAIN args.specs1) \cap (DOMAIN args.specs2)

C15_Agreeing == {key \in C15_Shared : args.specs1[key] = args.specs2[key]}

\* C15: for all specs maps A and B, _specs_similarity(A, B) is 0 when
\* either map is empty or the two have no key in common, is 1.0 when they
\* have a key in common and every shared key has equal values, and
\* otherwise is the number of shared keys with equal values over the
\* number of shared keys.
C15_SpecsSimilarityCounts ==
    Returned("_specs_similarity") =>
        /\ (args.specs1 = EmptyDict \/ args.specs2 = EmptyDict \/ C15_Shared = {})
             => IsFraction(returned[1], 0, 1)
        /\ (C15_Shared # {} /\ C15_Agreeing = C15_Shared)
             => IsFraction(returned[1], 1, 1)
        /\ C15_Shared # {}
             => IsFraction(returned[1], Cardinality(C15_Agreeing), Cardinality(C15_Shared))

\* Two maps with two keys in common, one of them with equal values, and a
\* key that only the first map has: half.
C15_Witness ==
    /\ Returned("_specs_similarity")
    /\ Cardinality(C15_Shared) = 2
    /\ Cardinality(C15_Agreeing) = 1
    /\ (DOMAIN args.specs1) \ (DOMAIN args.specs2) # {}
    /\ IsFraction(returned[1], 1, 2)

\* The weights the claim gives, in hundredths.
C16_Weight ==
    [brand |-> 25, model |-> 35, size |-> 15, resolution |-> 10,
     refresh_rate |-> 10, panel_type |-> 5]

\* An attribute has a value when it is not None, not the empty string and,
\* for the two numbers, not 0.0 (the tests of lines 414-441 are tests of
\* truth); it is set on both sides when the product row and the listing
\* both have a value.
C16_HasValue(v) == v # <<>> /\ v # <<0>>

C16_SetOnBoth(k) == C16_HasValue(args.product[k]) /\ C16_HasValue(args.match_data[k])

\* The component score of an attribute set on both sides, as a fraction.
C16_Component(k) ==
    IF k = "model" THEN model_similarity(args.product.model, args.match_data.model)
    ELSE IF k = "brand"
         THEN IF lower(args.product.brand) = lower(args.match_data.brand)
              THEN <<1, 1>> ELSE <<0, 1>>
         ELSE IF args.product[k] = args.match_data[k] THEN <<1, 1>> ELSE <<0, 1>>

\* The denominator every component score can be brought to: that of the
\* model's, the only one that is not whole.
C16_Denominator == IF C16_SetOnBoth("model") THEN C16_Component("model")[2] ELSE 1

\* Component score times weight, and the weight, of attribute k, both
\* times the common denominator; nothing for an attribute not set on both
\* sides.
C16_Scored(k) ==
    IF C16_SetOnBoth(k)
    THEN (C16_Component(k)[1] * C16_Denominator * C16_Weight[k]) \div C16_Component(k)[2]
    ELSE 0

C16_Included(k) == IF C16_SetOnBoth(k) THEN C16_Weight[k] * C16_Denominator ELSE 0

C16_ScoredSum ==
    C16_Scored("brand") + C16_Scored("model") + C16_Scored("size")
      + C16_Scored("resolution") + C16_Scored("refresh_rate") + C16_Scored("panel_type")

C16_IncludedSum ==
    C16_Included("brand") + C16_Included("model") + C16_Included("size")
      + C16_Included("resolution") + C16_Included("refresh_rate")
      + C16_Included("panel_type")

C17_SizeForms == {<<"2","7"," ","i","n","c","h">>, <<"2","7","\"">>,
   <<"2","7","-","i","n","c","h">>}

\* C17: for every title that carries the size as "27 inch", 27" or
\* "27-inch", _parse_monitor_attributes returns size 27.0 and mirrors it
\* into specs["size"].
C17_SizeFormsGive27 ==
    (/\ Returned("_parse_monitor_attributes")
     /\ \E form \in C17_SizeForms : Contains(args.product_name, form))
        => /\ returned[1].size = <<270>>
           /\ "size" \in DOMAIN returned[1].specs
           /\ returned[1].specs["size"] = 270

\* No known brand is in the title of the call as a whole word.
C18_NoBrandInTitle ==
    \A k \in 1..Len(known_brands) :
        search(brand_pattern(known_brands[k]), lower(strip(args.product_name)), FALSE) = <<>>

\* The whole-title patterns that match somewhere in the title of the call,
\* letter case ignored, by their place in the list.
C18_Matching ==
    {k \in 1..Len(model_patterns) :
        search(model_patterns[k], strip(args.product_name), TRUE) # <<>>}

\* The text the first of them matches.
C18_FirstMatch ==
    LET k == CHOOSE first \in C18_Matching : \A other \in C18_Matching : first <= other
    IN  search_group(model_patterns[k], strip(args.product_name), TRUE)[1]

\* C18, as the code has it: the patterns of the brand and the pattern after
\* the brand are attempted only if a brand was found, the three whole-title
\* patterns whenever no model has been found: for every title in which no
\* known brand token matches as a whole word, _parse_monitor_attributes
\* returns no brand and, as the model, the upper-cased text of the first of
\* the three whole-title patterns that matches, and model unset only when
\* none of the three matches.
C18_BrandlessModelIsFallback ==
    (Returned("_parse_monitor_attributes") /\ C18_NoBrandInTitle)
        => /\ returned[1].brand = <<>>
           /\ returned[1].model
                = (IF C18_Matching = {} THEN <<>> ELSE upper(C18_FirstMatch))

\* C18 as stated: model extraction is attempted only if a brand was found:
\* for every title in which no known brand token matches as a whole word,
\* _parse_monitor_attributes returns model unset.
C18_ModelOnlyWithBrand ==
    (Returned("_parse_monitor_attributes") /\ C18_NoBrandInTitle)
        => returned[1].model = <<>>

\* "Monitor P2425H": no brand, and the model the second whole-title pattern
\* finds.
C18_Witness ==
    /\ Returned("_parse_monitor_attributes")
    /\ args.product_name = <<"M","o","n","i","t","o","r"," ","P","2","4","2","5","H">>
    /\ C18_NoBrandInTitle
    /\ C18_Matching = {2}
    /\ returned[1].brand = <<>>
    /\ returned[1].model = <<"P","2","4","2","5","H">>

\* C19: extraction is deterministic: for the same title,
\* _parse_monitor_attributes returns the same brand, model, panel type and
\* other attributes on every invocation and in every run (in a process of
\* any hash seed), also for titles with more than one known brand token or
\* more than one panel-type token.
C19_SameInEveryRun ==
    Returned("_parse_monitor_attributes") =>
        \A seed \in HashSeeds :
            returned[1] = parse_monitor_attributes(args.product_name, seed)

\* The product row and the listing of the call both have a brand, and the
\* two differ whatever the case of their letters.
C21_BrandsDiffer ==
    /\ args.product.brand # <<>>
    /\ args.match_data.brand # <<>>
    /\ lower(args.product.brand) # lower(args.match_data.brand)

\* C21: find_product_matches never accepts a match between a product and a
\* listing whose extracted brand is set and differs (case-insensitively)
\* from the product's brand: with the brand term included at score 0 the
\* weighted score is at most 0.75, below the 0.8 acceptance threshold,
\* whatever the other attributes are; the test of line 311 fails.
C21_BrandMismatchNeverAccepted ==
    (Returned("_calculate_match_score") /\ C21_BrandsDiffer)
        => /\ returned[1][1] * 4 <= 3 * returned[1][2]
           /\ ~AtLeast(returned[1], 8, 10)
           /\ ~ScoreAccepted(args.product, args.match_data)

\* The brands differ and the model, size, resolution, refresh rate and panel
\* type are all set and equal: the score is 0.75 exactly.
C21_Witness ==
    /\ Returned("_calculate_match_score")
    /\ C21_BrandsDiffer
    /\ \A k \in {"model", "size", "resolution", "refresh_rate", "panel_type"} :
          /\ args.product[k] \notin {<<>>, <<0>>}
          /\ args.product[k] = args.match_data[k]
    /\ IsFraction(returned[1], 3, 4)

\* What the pattern of the returned brand (Dell, Samsung, LG) finds in the
\* title of the call: <<>> or <<text>>.
C22_BrandSpecific ==
    LET brand == lower(returned[1].brand)
        title == strip(args.product_name)
    IN  IF brand = <<"d","e","l","l">> THEN search_group(dell_pattern, title, FALSE)
        ELSE IF brand = <<"s","a","m","s","u","n","g">> THEN search_group(samsung_pattern, title, FALSE)
        ELSE IF brand = <<"l","g">> THEN search_group(lg_pattern, title, FALSE)
        ELSE <<>>

\* What the pattern for the token after the returned brand finds in the
\* lower-cased title.
C22_AfterBrand ==
    IF returned[1].brand = <<>> THEN <<>>
    ELSE search_group(generic_pattern(returned[1].brand),
                      lower(strip(args.product_name)), FALSE)

\* The text the first whole-title pattern that matches finds, or <<>>.
C22_WholeTitle ==
    LET title == strip(args.product_name)
        hits  == {k \in 1..Len(model_patterns) : search(model_patterns[k], title, TRUE) # <<>>}
    IN  IF hits = {} THEN <<>>
        ELSE search_group(model_patterns[CHOOSE k \in hits : \A j \in hits : k <= j],
                          title, TRUE)

\* C22: in _parse_monitor_attributes the model-extraction stages never
\* overwrite an earlier result: when the brand-specific pattern (Dell,
\* Samsung, LG) yields a model, the generic after-brand pattern and the
\* three whole-title fallback patterns leave it unchanged, and when the
\* generic after-brand pattern yields a model, the whole-title fallback
\* patterns leave it unchanged.
C22_EarlierStageKept ==
    Returned("_parse_monitor_attributes") =>
        /\ C22_BrandSpecific # <<>> => returned[1].model = C22_BrandSpecific[1]
        /\ (C22_BrandSpecific = <<>> /\ C22_AfterBrand # <<>>)
              => returned[1].model = upper(C22_AfterBrand[1])

\* The pattern of Dell finds one text, the pattern after the brand and the
\* whole-title patterns each another, and the model is the first.
C22_Witness ==
    /\ Returned("_parse_monitor_attributes")
    /\ C22_BrandSpecific # <<>>
    /\ C22_AfterBrand # <<>>
    /\ C22_WholeTitle # <<>>
    /\ upper(C22_AfterBrand[1]) # C22_BrandSpecific[1]
    /\ upper(C22_WholeTitle[1]) # C22_BrandSpecific[1]
    /\ returned[1].model = C22_BrandSpecific[1]

\* The explicit WIDTHxHEIGHT literal of the title of the call: <<>> or
\* <<text>>.
C23_Literal == search_group(specific_res_pattern, lower(strip(args.product_name)), FALSE)

\* The title of the call has a term for ultrawide QHD.
C23_UltrawideTerm ==
    \/ Contains(lower(args.product_name), <<"u","w","q","h","d">>)
    \/ Contains(lower(args.product_name), <<"u","l","t","r","a","w","i","d","e"," ","q","h","d">>)

\* C23: for a title that contains the term "uwqhd" or "ultrawide qhd" and no
\* explicit WIDTHxHEIGHT literal, _parse_monitor_attributes returns
\* resolution "3440x1440"; and for any title that contains an explicit
\* literal the returned resolution is that literal, overriding any
\* table-derived value.
C23_UltrawideAndLiteral ==
    Returned("_parse_monitor_attributes") =>
        /\ (C23_UltrawideTerm /\ C23_Literal = <<>>)
              => returned[1].resolution = <<"3","4","4","0","x","1","4","4","0">>
        /\ C23_Literal # <<>> => returned[1].resolution = C23_Literal[1]
====
